---- MODULE Spec2Model ----
(***************************************************************************)
(* A model of jarxorg/s3fs: the S3FS adapter (Open, Stat, ReadDir,         *)
(* ReadFile, Glob, CreateFile, WriteFile, RemoveFile, RemoveAll, MkdirAll),*)
(* its directory handle (s3Dir) and its write handle (s3WriterFile),       *)
(* running against an object store that obeys the list/get/put/delete      *)
(* contract of the S3 API.                                                 *)
(*                                                                         *)
(* Strings are sequences of one-character strings, so that path.Clean,     *)
(* path.Join, path.Dir, path.Base, fs.ValidPath, strings.HasSuffix and the *)
(* byte-wise order of keys are computed as Go computes them.               *)
(***************************************************************************)
EXTENDS Integers, Sequences, FiniteSets, TLC

(***************************************************************************)
(* Bounds of the model.                                                    *)
(***************************************************************************)
\* Largest ListBufferSize / DirOpenBufferSize / ReadDir(n) batch explored.
MaxPage == 3
\* Largest number of bytes held by a write handle's buffer.
MaxLen == 2
\* The greatest place, among the store calls of an operation, of a call that
\* fails.
MaxCalls == 4
\* The most write handles a caller holds at once.
MaxHandles == 2

(***************************************************************************)
(* Strings.                                                                *)
(***************************************************************************)
Alphabet == {"*", ".", "/", "?", "a", "b", "c", "d", "e", "f", "g", "x"}

\* The byte value of a character: Go compares strings byte-wise.
Ord ==
  [ch \in Alphabet |->
     CASE ch = "*" -> 42 [] ch = "." -> 46 [] ch = "/" -> 47 [] ch = "?" -> 63
       [] ch = "a" -> 97 [] ch = "b" -> 98 [] ch = "c" -> 99
       [] ch = "d" -> 100 [] ch = "e" -> 101 [] ch = "f" -> 102
       [] ch = "g" -> 103 [] ch = "x" -> 120]

MinOf(S) == CHOOSE m \in S : \A o \in S : m <= o

MaxOf(S) == CHOOSE m \in S : \A o \in S : o <= m

\* The positions at which s and t, compared over their common length, differ.
DiffAt(s, t) ==
  {i \in 1..(IF Len(s) < Len(t) THEN Len(s) ELSE Len(t)) : s[i] # t[i]}

\* s < t, given the positions at which they differ.
LessGiven(s, t, diff) ==
  IF diff = {} THEN Len(s) < Len(t)
  ELSE \E i \in diff : (\A j \in diff : i <= j) /\ Ord[s[i]] < Ord[t[i]]

\* s < t in Go's string order.
StrLess(s, t) == LessGiven(s, t, DiffAt(s, t))

\* strings.HasPrefix
HasPrefix(s, p) == Len(p) <= Len(s) /\ SubSeq(s, 1, Len(p)) = p

\* strings.HasSuffix
HasSuffix(s, p) ==
  Len(p) <= Len(s) /\ SubSeq(s, Len(s) - Len(p) + 1, Len(s)) = p

\* s[n+1:]
DropFirst(s, n) == SubSeq(s, n + 1, Len(s))

\* The positions of "/" in s.
Slashes(s) == {i \in 1..Len(s) : s[i] = "/"}

\* strings.Split(s, "/"): the segments of s, empty ones included.
RECURSIVE SplitSlash(_)
SplitAt(s, idx) ==
  IF idx = {} THEN <<s>>
  ELSE <<SubSeq(s, 1, MinOf(idx) - 1)>> \o SplitSlash(DropFirst(s, MinOf(idx)))

SplitSlash(s) == SplitAt(s, Slashes(s))

\* strings.Join(segs, "/")
RECURSIVE JoinSlash(_)
JoinSlash(segs) ==
  IF segs = <<>> THEN <<>>
  ELSE IF Len(segs) = 1 THEN segs[1]
  ELSE segs[1] \o <<"/">> \o JoinSlash(Tail(segs))

DOT == <<".">>
DOTDOT == <<".", ".">>
SLASH == <<"/">>
EMPTY == <<>>

\* The element stack path.Clean keeps while scanning the segments of a path.
RECURSIVE CleanSegs(_, _, _)
CleanSegs(segs, out, rooted) ==
  IF segs = <<>> THEN out
  ELSE CleanSegs(Tail(segs),
         IF Head(segs) = EMPTY \/ Head(segs) = DOT THEN out
         ELSE IF Head(segs) = DOTDOT
           THEN IF out # <<>> /\ out[Len(out)] # DOTDOT
                  THEN SubSeq(out, 1, Len(out) - 1)
                ELSE IF rooted THEN out
                ELSE Append(out, Head(segs))
         ELSE Append(out, Head(segs)),
         rooted)

\* The end of path.Clean: the empty result is ".".
DotIfEmpty(res) == IF res = EMPTY THEN DOT ELSE res

\* path.Clean
Clean(p) ==
  DotIfEmpty((IF Len(p) > 0 /\ p[1] = "/" THEN SLASH ELSE EMPTY)
             \o JoinSlash(CleanSegs(SplitSlash(p), <<>>, Len(p) > 0 /\ p[1] = "/")))

\* path.Join(a, b): empty elements are ignored, the result is cleaned.
Join(a, b) ==
  IF a = EMPTY /\ b = EMPTY THEN EMPTY
  ELSE Clean(IF a = EMPTY THEN b ELSE IF b = EMPTY THEN a ELSE a \o SLASH \o b)

\* path.Dir
Dir(p) ==
  IF Slashes(p) = {} THEN DOT ELSE Clean(SubSeq(p, 1, MaxOf(Slashes(p))))

\* p without its trailing slashes.
RECURSIVE TrimSlashes(_)
TrimSlashes(p) ==
  IF Len(p) > 0 /\ p[Len(p)] = "/" THEN TrimSlashes(SubSeq(p, 1, Len(p) - 1))
  ELSE p

\* The last element of a sequence.
Last(seq) == seq[Len(seq)]

\* path.Base of p, given p without its trailing slashes.
BaseOfTrimmed(p, q) ==
  IF p = EMPTY THEN DOT
  ELSE IF q = EMPTY THEN SLASH
  ELSE Last(SplitSlash(q))

\* path.Base
Base(p) == BaseOfTrimmed(p, TrimSlashes(p))

\* No element is empty, "." or "..".
ElementsValid(segs) ==
  \A i \in 1..Len(segs) : segs[i] \notin {EMPTY, DOT, DOTDOT}

\* fs.ValidPath
ValidPath(name) == name = DOT \/ ElementsValid(SplitSlash(name))

(***************************************************************************)
(* Errors.  An error is a chain of fs.PathError wrappers around a cause.   *)
(***************************************************************************)
NilErr == [wraps |-> <<>>, cause |-> "nil"]

\* A bare error value: fs.ErrNotExist, fs.ErrInvalid, fs.ErrClosed,
\* syscall.EISDIR, syscall.ENOTDIR, io.EOF, or the store's NoSuchKey.
Bare(c) == [wraps |-> <<>>, cause |-> c]

\* &fs.PathError{Op: op, Path: path, Err: e}
PathError(op, path, e) ==
  [wraps |-> <<[Op |-> op, Path |-> path]>> \o e.wraps, cause |-> e.cause]

isNotExist(e) == e.cause = "ErrNotExist" /\ Len(e.wraps) <= 1

isS3NoSuchKey(e) == e.cause = "NoSuchKey"

\* A wrapping that leaves the store's NoSuchKey as it is.
toPathErrorRaw(e, op, name) == PathError(op, name, e)

toPathError(e, op, name) ==
  PathError(op, name, IF isS3NoSuchKey(e) THEN Bare("ErrNotExist") ELSE e)

\* A translation that returns every error as it is.
toS3Unchanged(e) == e

\* toS3NoSuckKeyIfNoExist
toS3NoSuckKeyIfNoExist(e) == IF isNotExist(e) THEN Bare("NoSuchKey") ELSE e

(***************************************************************************)
(* The object store: a bucket is a finite map from keys to bodies.  The    *)
(* operations follow the contract of the store client (list, get, put,     *)
(* delete, deleteBatch).                                                   *)
(***************************************************************************)
GetObject(st, k) ==
  IF k \in DOMAIN st
    THEN [err |-> NilErr, Body |-> st[k], ContentLength |-> Len(st[k])]
    ELSE [err |-> Bare("NoSuchKey"), Body |-> <<>>, ContentLength |-> 0]

PutObject(st, k, body) ==
  [o \in DOMAIN st \cup {k} |-> IF o = k THEN body ELSE st[o]]

DeleteObject(st, k) == [o \in DOMAIN st \ {k} |-> st[o]]

DeleteObjects(st, ks) == [o \in DOMAIN st \ ks |-> st[o]]

\* What a key contributes to a listing of prefix: itself (an object), or,
\* with the delimiter, the common prefix up to the next "/" after prefix.
ListEntryAt(k, prefix, delim, rest) ==
  IF delim /\ Slashes(rest) # {}
    THEN [isPrefix |-> TRUE, s |-> prefix \o SubSeq(rest, 1, MinOf(Slashes(rest)))]
    ELSE [isPrefix |-> FALSE, s |-> k]

ListEntry(k, prefix, delim) ==
  ListEntryAt(k, prefix, delim, DropFirst(k, Len(prefix)))

\* The least entry of E, by its string.
LeastEntry(E) == CHOOSE e \in E : \A o \in E : o = e \/ StrLess(e.s, o.s)

\* The entries of E in ascending order of their string.
RECURSIVE SortEntries(_)
SortFrom(E, m) == <<m>> \o SortEntries(E \ {m})

SortEntries(E) == IF E = {} THEN <<>> ELSE SortFrom(E, LeastEntry(E))

\* The strings of the entries of seq that are common prefixes.
RECURSIVE PrefixesOf(_)
PrefixesOf(seq) ==
  IF seq = <<>> THEN <<>>
  ELSE (IF Head(seq).isPrefix THEN <<Head(seq).s>> ELSE <<>>)
         \o PrefixesOf(Tail(seq))

\* The object records of the entries of seq that are objects.
RECURSIVE ObjectsOf(_, _)
ObjectsOf(st, seq) ==
  IF seq = <<>> THEN <<>>
  ELSE (IF Head(seq).isPrefix THEN <<>>
        ELSE <<[Key |-> Head(seq).s, Size |-> Len(st[Head(seq).s])]>>)
         \o ObjectsOf(st, Tail(seq))

\* The first n elements of seq, or all of it.
FirstN(seq, n) == SubSeq(seq, 1, IF Len(seq) < n THEN Len(seq) ELSE n)

\* A page of at most maxKeys of the sorted entries.
ListPage(st, sorted, maxKeys) ==
  [CommonPrefixes |-> PrefixesOf(FirstN(sorted, maxKeys)),
   Contents |-> ObjectsOf(st, FirstN(sorted, maxKeys)),
   IsTruncated |-> Len(sorted) > maxKeys]

\* The entries of a listing that are greater than startAfter.
EntriesAfter(st, prefix, delim, startAfter) ==
  {e \in {ListEntry(k, prefix, delim) :
            k \in {o \in DOMAIN st : HasPrefix(o, prefix)}} :
     StrLess(startAfter, e.s)}

\* ListObjectsV2: keys and common prefixes that begin with prefix and are
\* greater than startAfter, in ascending order, at most maxKeys of them
\* (objects and common prefixes counted together).
ListObjectsV2(st, prefix, delim, maxKeys, startAfter) ==
  ListPage(st, SortEntries(EntriesAfter(st, prefix, delim, startAfter)), maxKeys)

(***************************************************************************)
(* FSS3API: the store the tests use, built on a file system.  tree is the  *)
(* files below the directory of the bucket, path -> body; the directories  *)
(* are the ancestors of the files.                                         *)
(***************************************************************************)
defaultMaxKeys == 1000

getMaxKeys(n) == IF n <= 0 THEN defaultMaxKeys ELSE n

\* The name of the bucket, a directory at the top of the file system.
MockBucket == <<"g">>

TrimPrefix(s, p) == IF HasPrefix(s, p) THEN DropFirst(s, Len(p)) ELSE s

\* The file system: p is a file, p is a directory, the names in p.
FsFile(tree, p) ==
  HasPrefix(p, MockBucket \o SLASH) /\ DropFirst(p, Len(MockBucket) + 1) \in DOMAIN tree

FsDir(tree, p) ==
  p = MockBucket \/
    \E k \in DOMAIN tree : HasPrefix(MockBucket \o SLASH \o k, p \o SLASH)

FirstSegment(s) ==
  IF Slashes(s) = {} THEN s ELSE SubSeq(s, 1, MinOf(Slashes(s)) - 1)

FsNames(tree, p) ==
  {FirstSegment(DropFirst(MockBucket \o SLASH \o k, Len(p) + 1)) :
     k \in {o \in DOMAIN tree : HasPrefix(MockBucket \o SLASH \o o, p \o SLASH)}}

LeastName(S) == CHOOSE m \in S : \A o \in S : o = m \/ StrLess(m, o)

RECURSIVE SortNames(_)
SortNamesFrom(S, m) == <<m>> \o SortNames(S \ {m})

SortNames(S) == IF S = {} THEN <<>> ELSE SortNamesFrom(S, LeastName(S))

\* fs.ReadDir: the names in the directory p, sorted by name.
FsReadDir(tree, p) == SortNames(FsNames(tree, p))

\* What a list call returns.
NoOutput ==
  [err |-> NilErr, CommonPrefixes |-> <<>>, Contents |-> <<>>,
   IsTruncated |-> FALSE]

\* The state of a listing under way.
NoListing ==
  [CommonPrefixes |-> <<>>, Contents |-> <<>>, limited |-> FALSE,
   truncated |-> FALSE, skip |-> FALSE]

\* The part of both listings that takes the file with the key name.
AppendContent(tree, input, w, name) ==
  IF ~StrLess(input.StartAfter, name) THEN w
  ELSE [w EXCEPT !.Contents = Append(@, [Key |-> name, Size |-> Len(tree[name])]),
                 !.limited = Len(w.Contents) + 1 >= getMaxKeys(input.MaxKeys)]

\* The function walkDir passes to fs.WalkDir, called on the file p; skip
\* is its returning fs.SkipDir.
walkDirFunc(tree, input, w, p) ==
  IF w.limited THEN [w EXCEPT !.truncated = TRUE, !.skip = TRUE]
  ELSE AppendContent(tree, input, w, TrimPrefix(p, MockBucket \o SLASH))

\* fs.WalkDir below p: the function is called on p, and when p is a
\* directory (the function returns nil on one) on what p holds, in the
\* order of the names; fs.SkipDir from a file ends the directory it is in.
RECURSIVE fsWalkDir(_, _, _, _)
RECURSIVE fsWalkEntries(_, _, _, _, _)
fsWalkNext(tree, input, p, names, w) ==
  IF w.skip THEN [w EXCEPT !.skip = FALSE]
  ELSE fsWalkEntries(tree, input, w, p, Tail(names))

fsWalkEntries(tree, input, w, p, names) ==
  IF names = <<>> THEN w
  ELSE fsWalkNext(tree, input, p, names,
                  fsWalkDir(tree, input, w, Join(p, Head(names))))

fsWalkDir(tree, input, w, p) ==
  IF FsFile(tree, p) THEN walkDirFunc(tree, input, w, p)
  ELSE fsWalkEntries(tree, input, w, p, FsReadDir(tree, p))

OutputOf(w) ==
  [err |-> NilErr, CommonPrefixes |-> w.CommonPrefixes, Contents |-> w.Contents,
   IsTruncated |-> w.truncated]

\* FSS3API.walkDir: the listing without a delimiter.  fs.WalkDir of a
\* path that does not exist hands the error of fs.Stat to the function,
\* which returns it.
walkDirAt(tree, input, dir) ==
  IF ~FsFile(tree, dir) /\ ~FsDir(tree, dir)
    THEN [NoOutput EXCEPT !.err = PathError("stat", dir, Bare("ErrNotExist"))]
  ELSE OutputOf(fsWalkDir(tree, input, NoListing, dir))

walkDir(tree, input) == walkDirAt(tree, input, Join(MockBucket, input.Prefix))

\* The body of the loop of FSS3API.readDir, on the entry called name.
readDirEntry(tree, input, w, name, isDir) ==
  IF isDir THEN [w EXCEPT !.CommonPrefixes = Append(@, name)]
  ELSE IF w.limited THEN [w EXCEPT !.truncated = TRUE]
  ELSE AppendContent(tree, input, w, name)

RECURSIVE readDirLoop(_, _, _, _, _)
readDirLoop(tree, input, dir, names, w) ==
  IF names = <<>> THEN w
  ELSE readDirLoop(tree, input, dir, Tail(names),
                   readDirEntry(tree, input, w, Join(input.Prefix, Head(names)),
                                FsDir(tree, Join(dir, Head(names)))))

\* FSS3API.readDir: the listing with the delimiter "/".  fs.ReadDir of a
\* path that does not exist fails with fs.ErrNotExist, turned into
\* NoSuchKey; of a file, with the error of the file system.
readDirAt(tree, input, dir) ==
  IF FsFile(tree, dir)
    THEN [NoOutput EXCEPT !.err = PathError("readdir", dir, Bare("ENOTDIR"))]
  ELSE IF ~FsDir(tree, dir) THEN [NoOutput EXCEPT !.err = Bare("NoSuchKey")]
  ELSE OutputOf(readDirLoop(tree, input, dir, FsReadDir(tree, dir), NoListing))

readDir(tree, input) == readDirAt(tree, input, Join(MockBucket, input.Prefix))

\* FSS3API.ListObjectsV2
MockListObjectsV2(tree, input) ==
  IF input.Delimiter = SLASH THEN readDir(tree, input) ELSE walkDir(tree, input)

(***************************************************************************)
(* content, and path/key conversion of S3FS.                               *)
(***************************************************************************)
newDirContent(prefix) == [name |-> Base(prefix), isDir |-> TRUE, size |-> 0]

newFileContent(o) == [name |-> Base(o.Key), isDir |-> FALSE, size |-> o.Size]

NoInfo == [name |-> EMPTY, isDir |-> FALSE, size |-> -1]

\* The end of normalizePrefix: "." and "/" become "", and any other
\* prefix ends with "/".
WithSlash(c) ==
  IF c = DOT \/ c = SLASH THEN EMPTY
  ELSE IF HasSuffix(c, SLASH) THEN c
  ELSE c \o SLASH

\* A prefix that is not closed with a slash.
normalizePrefixOpen(prefix) == IF Clean(prefix) = DOT THEN EMPTY ELSE Clean(prefix)

normalizePrefix(prefix) == WithSlash(Clean(prefix))

key(fs, name) == Clean(Join(fs.dir, name))

(***************************************************************************)
(* s3Dir: the directory handle.                                            *)
(***************************************************************************)
\* The s3Dir of a normalized prefix.
S3DirAt(prefix) ==
  [name |-> Base(prefix), isDir |-> TRUE, size |-> 0,
   prefix |-> prefix, after |-> EMPTY, eof |-> FALSE, cache |-> <<>>]

newS3Dir(fs, name) == S3DirAt(normalizePrefix(key(fs, name)))

\* newDirContent of each common prefix of a page.
RECURSIVE DirEntries(_)
DirEntries(ps) ==
  IF ps = <<>> THEN <<>> ELSE <<newDirContent(Head(ps))>> \o DirEntries(Tail(ps))

\* newFileContent of each object of a page.
RECURSIVE FileEntries(_)
FileEntries(os) ==
  IF os = <<>> THEN <<>> ELSE <<newFileContent(Head(os))>> \o FileEntries(Tail(os))

\* d.after once the two loops over a page have run: the loop over Contents
\* runs last, so the last object key wins whenever the page holds an object.
AfterOfPage(after, output) ==
  IF output.Contents # <<>> THEN Last(output.Contents).Key
  ELSE IF output.CommonPrefixes # <<>> THEN Last(output.CommonPrefixes)
  ELSE after

\* The end of s3Dir.list, once the list call has returned output.
listOutput(d, entries, output) ==
  [d |-> [d EXCEPT !.after = AfterOfPage(d.after, output),
                   !.eof = ~output.IsTruncated],
   entries |-> entries \o DirEntries(output.CommonPrefixes)
                       \o FileEntries(output.Contents),
   err |-> NilErr,
   calls |-> <<"ListObjectsV2">>]

\* The part of s3Dir.list that issues the list call, for n entries more.
listPage(st, d, entries, n) ==
  listOutput(d, entries, ListObjectsV2(st, d.prefix, TRUE, n, d.after))

\* s3Dir.list(n)
list(st, d, n) ==
  IF Len(d.cache) > 0 /\ n < Len(d.cache)
    THEN [d |-> [d EXCEPT !.cache = DropFirst(d.cache, n)],
          entries |-> SubSeq(d.cache, 1, n), err |-> NilErr, calls |-> <<>>]
  ELSE IF Len(d.cache) > 0 /\ (d.eof \/ n - Len(d.cache) <= 0)
    THEN [d |-> [d EXCEPT !.cache = <<>>],
          entries |-> d.cache, err |-> NilErr, calls |-> <<>>]
  ELSE IF d.eof
    THEN [d |-> d, entries |-> <<>>, err |-> Bare("EOF"), calls |-> <<>>]
  ELSE listPage(st, [d EXCEPT !.cache = <<>>], d.cache, n - Len(d.cache))

\* Insertion of entry e into a sequence sorted by name, after its equals.
RECURSIVE InsertByName(_, _)
InsertByName(e, seq) ==
  IF seq = <<>> THEN <<e>>
  ELSE IF StrLess(e.name, Head(seq).name) THEN <<e>> \o seq
  ELSE <<Head(seq)>> \o InsertByName(e, Tail(seq))

\* sort.Slice by Name().  The order among entries of equal name is not
\* fixed by sort.Slice; the properties stated below do not depend on it.
RECURSIVE SortByName(_)
SortByName(seq) ==
  IF seq = <<>> THEN <<>>
  ELSE InsertByName(Last(seq), SortByName(SubSeq(seq, 1, Len(seq) - 1)))

\* The loop of s3Dir.listAll; listAllStep is its body once list returned r.
RECURSIVE listAllLoop(_, _, _, _, _)
listAllStep(fs, st, all, calls, r) ==
  IF r.err # NilErr /\ r.err # Bare("EOF")
    THEN [d |-> r.d, entries |-> <<>>, err |-> r.err, calls |-> calls \o r.calls]
  ELSE listAllLoop(fs, st, r.d, all \o r.entries, calls \o r.calls)

listAllLoop(fs, st, d, all, calls) ==
  IF Len(d.cache) > 0 \/ ~d.eof
    THEN listAllStep(fs, st, all, calls, list(st, d, fs.ListBufferSize))
  ELSE [d |-> d, entries |-> SortByName(all), err |-> NilErr, calls |-> calls]

\* s3Dir.listAll
listAll(fs, st, d) == listAllLoop(fs, st, d, <<>>, <<>>)

\* s3Dir.ReadDir(n)
DirReadDir(fs, st, d, n) == IF n <= 0 THEN listAll(fs, st, d) ELSE list(st, d, n)

\* An open that takes a directory without entries for a directory.
openListedAny(d, r) ==
  IF r.err # NilErr
    THEN [ok |-> FALSE, d |-> r.d, err |-> r.err, calls |-> r.calls]
  ELSE [ok |-> TRUE, d |-> [r.d EXCEPT !.cache = r.entries],
        err |-> NilErr, calls |-> r.calls]

\* The end of s3Dir.open, once list returned r.
openListed(d, r) ==
  IF r.err # NilErr
    THEN [ok |-> FALSE, d |-> r.d, err |-> r.err, calls |-> r.calls]
  ELSE IF Len(r.entries) = 0
    THEN [ok |-> FALSE, d |-> r.d,
          err |-> PathError("Open", d.prefix, Bare("ErrNotExist")),
          calls |-> r.calls]
  ELSE [ok |-> TRUE, d |-> [r.d EXCEPT !.cache = r.entries],
        err |-> NilErr, calls |-> r.calls]

\* s3Dir.open(n)
open(st, d, n) == openListed(d, list(st, d, n))

(***************************************************************************)
(* s3File and s3WriterFile.                                                *)
(***************************************************************************)
newS3File(k, o) ==
  [name |-> Base(k), isDir |-> FALSE, size |-> o.ContentLength, buf |-> o.Body]

NoFile == [name |-> EMPTY, isDir |-> FALSE, size |-> -1, buf |-> <<>>]

\* The struct literal of newS3WriterFile sets content, key and buf; the
\* field fsys keeps its zero value, a nil pointer (the empty sequence here;
\* a set pointer is the one-element sequence holding the S3FS).
newS3WriterFile(fs, k) ==
  [name |-> Base(k), key |-> k, buf |-> <<>>, bufNil |-> FALSE,
   wrote |-> FALSE, fsys |-> <<>>, puts |-> 0]

\* s3WriterFile.Write(p)
WriterWrite(f, p) ==
  IF f.bufNil
    THEN [f |-> f, n |-> 0, err |-> toPathError(Bare("ErrClosed"), "Write", f.key)]
    ELSE [f |-> [f EXCEPT !.wrote = TRUE, !.buf = f.buf \o p],
          n |-> Len(p), err |-> NilErr]

\* s3WriterFile.Read(p) with len(p) = n >= 1: bytes.Buffer.Read hands out
\* the first bytes of the buffer and takes them off it; buf is what
\* f.buf.Bytes() returns, the bytes not read yet.
WriterRead(f, n) ==
  IF f.bufNil
    THEN [f |-> f, n |-> 0, data |-> <<>>,
          err |-> PathError("Read", f.key, Bare("ErrClosed"))]
  ELSE IF f.buf = <<>>
    THEN [f |-> f, n |-> 0, data |-> <<>>, err |-> Bare("EOF")]
  ELSE IF n >= Len(f.buf)
    THEN [f |-> [f EXCEPT !.buf = <<>>], n |-> Len(f.buf), data |-> f.buf,
          err |-> NilErr]
  ELSE [f |-> [f EXCEPT !.buf = SubSeq(f.buf, n + 1, Len(f.buf))], n |-> n,
        data |-> SubSeq(f.buf, 1, n), err |-> NilErr]

\* s3WriterFile.Stat
WriterStat(f) ==
  [f |-> f, info |-> [name |-> f.name, isDir |-> FALSE, size |-> 0],
   err |-> NilErr]

\* A Close that uploads the buffer to the handle's key.
WriterCloseUploading(st, f) ==
  IF ~f.wrote
    THEN [f |-> f, st |-> st, err |-> NilErr, panicked |-> FALSE, calls |-> <<>>]
  ELSE IF f.bufNil
    THEN [f |-> f, st |-> st, err |-> toPathError(Bare("ErrClosed"), "Close", f.key),
          panicked |-> FALSE, calls |-> <<>>]
  ELSE [f |-> [f EXCEPT !.bufNil = TRUE, !.buf = <<>>, !.puts = f.puts + 1],
        st |-> PutObject(st, f.key, f.buf),
        err |-> NilErr, panicked |-> FALSE, calls |-> <<"PutObject">>]

\* s3WriterFile.Close().  Building the PutObjectInput reads f.fsys.bucket
\* before f.buf is cleared and before PutObject is called: with f.fsys nil
\* the call panics there (nil pointer dereference) and changes nothing.
WriterClose(st, f) ==
  IF ~f.wrote
    THEN [f |-> f, st |-> st, err |-> NilErr, panicked |-> FALSE, calls |-> <<>>]
  ELSE IF f.bufNil
    THEN [f |-> f, st |-> st, err |-> toPathError(Bare("ErrClosed"), "Close", f.key),
          panicked |-> FALSE, calls |-> <<>>]
  ELSE IF f.fsys = <<>>
    THEN [f |-> f, st |-> st, err |-> NilErr, panicked |-> TRUE, calls |-> <<>>]
  ELSE [f |-> [f EXCEPT !.bufNil = TRUE, !.buf = <<>>, !.puts = f.puts + 1],
        st |-> PutObject(st, key(f.fsys[1], f.key), f.buf),
        err |-> NilErr, panicked |-> FALSE, calls |-> <<"PutObject">>]

(***************************************************************************)
(* S3FS: the operations, as functions of the adapter fs (its fields) and   *)
(* the bucket st.  Each returns what the method returns, the bucket it     *)
(* leaves where it writes, and the store calls it issued.  An operator     *)
(* whose name ends in a participle is the rest of the method named before  *)
(* it, once the call it waits for has returned.                            *)
(***************************************************************************)
\* The end of S3FS.openFile, once GetObject returned output.
openFileGot(name, output) ==
  IF output.err # NilErr
    THEN [err |-> toPathError(output.err, "Open", name),
          file |-> NoFile, calls |-> <<"GetObject">>]
  ELSE [err |-> NilErr, file |-> newS3File(name, output),
        calls |-> <<"GetObject">>]

\* S3FS.openFile
openFile(fs, st, name) ==
  IF ~ValidPath(name)
    THEN [err |-> toPathError(Bare("ErrInvalid"), "Open", name),
          file |-> NoFile, calls |-> <<>>]
  ELSE IF name = DOT \/ HasSuffix(name, <<"/", ".">>)
    THEN [err |-> toPathError(Bare("ErrNotExist"), "Open", name),
          file |-> NoFile, calls |-> <<>>]
  ELSE openFileGot(name, GetObject(st, key(fs, name)))

\* The FileInfo a handle gives.
InfoOf(h) == [name |-> h.name, isDir |-> h.isDir, size |-> h.size]

\* The end of S3FS.Open and S3FS.Stat: f is what openFile returned, o what
\* s3Dir.open returns when it is called.
Opened(f, o) ==
  IF f.err # NilErr /\ isNotExist(f.err)
    THEN [err |-> o.err, isDir |-> o.ok, file |-> NoFile, dir |-> o.d,
          info |-> IF o.ok THEN InfoOf(o.d) ELSE NoInfo,
          calls |-> f.calls \o o.calls]
  ELSE [err |-> f.err, isDir |-> FALSE, file |-> f.file, dir |-> S3DirAt(EMPTY),
        info |-> IF f.err = NilErr THEN InfoOf(f.file) ELSE NoInfo,
        calls |-> f.calls]

\* S3FS.Open
Open(fs, st, name) ==
  Opened(openFile(fs, st, name), open(st, newS3Dir(fs, name), fs.DirOpenBufferSize))

\* S3FS.Stat
Stat(fs, st, name) ==
  Opened(openFile(fs, st, name), open(st, newS3Dir(fs, name), 1))

\* The end of S3FS.ReadFile: io.ReadAll of the file, then its Close.
ReadFileOpened(f) == [err |-> f.err, data |-> f.file.buf, calls |-> f.calls]

\* S3FS.ReadFile
ReadFile(fs, st, name) == ReadFileOpened(openFile(fs, st, name))

\* What S3FS.ReadDir returns of what s3Dir.ReadDir(-1) returned.
ReadDirListed(r) == [err |-> r.err, entries |-> r.entries, calls |-> r.calls]

\* S3FS.ReadDir
ReadDir(fs, st, dir) ==
  IF ~ValidPath(dir)
    THEN [err |-> toPathError(Bare("ErrInvalid"), "ReadDir", dir),
          entries |-> <<>>, calls |-> <<>>]
  ELSE ReadDirListed(DirReadDir(fs, st, newS3Dir(fs, dir), -1))

\* The names of a sequence of entries.
RECURSIVE NamesOf(_)
NamesOf(entries) ==
  IF entries = <<>> THEN <<>> ELSE <<Head(entries).name>> \o NamesOf(Tail(entries))

\* The end of the first branch of S3FS.Glob, once ReadDir("") returned r.
GlobRootListed(r) ==
  [err |-> r.err, keys |-> IF r.err # NilErr THEN <<>> ELSE NamesOf(r.entries),
   calls |-> r.calls]

\* S3FS.Glob, for the patterns "" and "*": the names of ReadDir("").
GlobRoot(fs, st) == GlobRootListed(ReadDir(fs, st, EMPTY))

\* path.Match for patterns of literal characters, "*" and "?": "*" matches
\* any run of characters other than "/", "?" one character other than "/".
RECURSIVE Match(_, _)
Match(pattern, name) ==
  IF pattern = <<>> THEN name = <<>>
  ELSE IF Head(pattern) = "*"
    THEN \/ Match(Tail(pattern), name)
         \/ (name # <<>> /\ Head(name) # "/" /\ Match(pattern, Tail(name)))
  ELSE IF Head(pattern) = "?"
    THEN name # <<>> /\ Head(name) # "/" /\ Match(Tail(pattern), Tail(name))
  ELSE name # <<>> /\ Head(name) = Head(pattern) /\ Match(Tail(pattern), Tail(name))

\* The characters that end the literal part of a pattern.
IsMeta(ch) == ch \in {"*", "?", "[", "\\"}

\* pattern[:i] for the first i that holds a meta character.
RECURSIVE LiteralPrefix(_)
LiteralPrefix(pattern) ==
  IF pattern = <<>> \/ IsMeta(Head(pattern)) THEN <<>>
  ELSE <<Head(pattern)>> \o LiteralPrefix(Tail(pattern))

\* The end of normalizePrefixPattern, for the literal part of the pattern
\* and its join with the prefix.
normalizePrefixPatternJoined(literal, joined) ==
  IF HasSuffix(literal, SLASH) \/ (joined # EMPTY /\ literal = EMPTY)
    THEN joined \o SLASH
    ELSE joined

normalizePrefixPattern(prefix, pattern) ==
  normalizePrefixPatternJoined(LiteralPrefix(pattern),
                               Join(normalizePrefix(prefix), LiteralPrefix(pattern)))

\* S3FS.rel: strings.TrimPrefix(name, normalizePrefix(fsys.dir))
rel(fs, name) ==
  IF HasPrefix(name, normalizePrefix(fs.dir))
    THEN DropFirst(name, Len(normalizePrefix(fs.dir)))
    ELSE name

contains(keys, k) == \E i \in 1..Len(keys) : keys[i] = k

\* An append that does not look for the key among those kept.
appendIfMatchAgain(keys, k, pattern) ==
  IF Match(pattern, k) THEN Append(keys, k) ELSE keys

appendIfMatch(keys, k, pattern) ==
  IF Match(pattern, k) /\ ~contains(keys, k) THEN Append(keys, k) ELSE keys

\* The loop of listForGlob over the common prefixes of a page.
RECURSIVE AppendPrefixes(_, _, _, _)
AppendPrefixes(fs, keys, ps, pattern) ==
  IF ps = <<>> THEN keys
  ELSE AppendPrefixes(fs, appendIfMatch(keys, TrimSlashes(rel(fs, Head(ps))), pattern),
                      Tail(ps), pattern)

\* The loop of listForGlob over the objects of a page.
RECURSIVE AppendObjects(_, _, _, _)
AppendObjects(fs, keys, os, pattern) ==
  IF os = <<>> THEN keys
  ELSE AppendObjects(fs, appendIfMatch(keys, rel(fs, Head(os).Key), pattern),
                     Tail(os), pattern)

\* The loop of S3FS.listForGlob.  input.StartAfter moves only to the last
\* object key of a page: a truncated page without objects is requested
\* again as it is, and the loop never ends (diverges).
RECURSIVE listForGlobLoop(_, _, _, _, _, _, _)
listForGlobContents(fs, st, pattern, dirOnly, calls, output, keys) ==
  IF ~output.IsTruncated
    THEN [keys |-> keys, err |-> NilErr, diverges |-> FALSE, calls |-> calls]
  ELSE IF output.Contents = <<>>
    THEN [keys |-> <<>>, err |-> NilErr, diverges |-> TRUE, calls |-> calls]
  ELSE listForGlobLoop(fs, st, pattern, dirOnly, Last(output.Contents).Key,
                       keys, calls)

listForGlobPrefixed(fs, st, pattern, dirOnly, calls, output, keys) ==
  IF dirOnly
    THEN [keys |-> keys, err |-> NilErr, diverges |-> FALSE, calls |-> calls]
  ELSE listForGlobContents(fs, st, pattern, dirOnly, calls, output,
                           AppendObjects(fs, keys, output.Contents, pattern))

listForGlobListed(fs, st, pattern, dirOnly, keys, calls, output) ==
  listForGlobPrefixed(fs, st, pattern, dirOnly, calls \o <<"ListObjectsV2">>,
                      output,
                      AppendPrefixes(fs, keys, output.CommonPrefixes, pattern))

listForGlobLoop(fs, st, pattern, dirOnly, startAfter, keys, calls) ==
  listForGlobListed(fs, st, pattern, dirOnly, keys, calls,
                    ListObjectsV2(st, normalizePrefixPattern(fs.dir, pattern),
                                  TRUE, fs.ListBufferSize, startAfter))

\* S3FS.listForGlob
listForGlob(fs, st, pattern, dirOnly) ==
  listForGlobLoop(fs, st, pattern, dirOnly, EMPTY, <<>>, <<>>)

\* The loop of S3FS.glob over dirs; globDirListed is its body once
\* listForGlob returned r.
RECURSIVE globDirs(_, _, _, _, _, _, _, _)
globDirListed(fs, st, dirs, pattern, dirOnly, subDirs, matches, calls, r) ==
  IF r.err # NilErr \/ r.diverges
    THEN [subDirs |-> <<>>, matches |-> <<>>, err |-> r.err,
          diverges |-> r.diverges, calls |-> calls \o r.calls]
  ELSE globDirs(fs, st, Tail(dirs), pattern, dirOnly,
                IF dirOnly THEN subDirs \o r.keys ELSE subDirs,
                matches \o r.keys, calls \o r.calls)

globDirs(fs, st, dirs, pattern, dirOnly, subDirs, matches, calls) ==
  IF dirs = <<>>
    THEN [subDirs |-> subDirs, matches |-> matches, err |-> NilErr,
          diverges |-> FALSE, calls |-> calls]
  ELSE globDirListed(fs, st, dirs, pattern, dirOnly, subDirs, matches, calls,
                     listForGlob(fs, st, Join(Head(dirs), pattern), dirOnly))

\* S3FS.glob; globListed is its end once the loop over dirs returned g.
RECURSIVE glob(_, _, _, _, _, _)
globListed(fs, st, patterns, g) ==
  IF g.err # NilErr \/ g.diverges
    THEN [matches |-> <<>>, err |-> g.err, diverges |-> g.diverges,
          calls |-> g.calls]
  ELSE IF Len(g.subDirs) > 0 /\ Len(patterns) > 1
    THEN glob(fs, st, g.subDirs, Tail(patterns), g.matches, g.calls)
  ELSE [matches |-> g.matches, err |-> NilErr, diverges |-> FALSE,
        calls |-> g.calls]

glob(fs, st, dirs, patterns, matches, calls) ==
  globListed(fs, st, patterns,
             globDirs(fs, st, dirs, Head(patterns), Len(patterns) > 1,
                      <<>>, matches, calls))

\* A Glob that returns every key glob collected, matching or not.
FilterNothing(matches, keys, pattern) == matches \o keys

\* The loop of S3FS.Glob that keeps the keys matching the whole pattern.
RECURSIVE FilterMatches(_, _, _)
FilterMatches(matches, keys, pattern) ==
  IF keys = <<>> THEN matches
  ELSE FilterMatches(appendIfMatch(matches, Head(keys), pattern), Tail(keys), pattern)

\* sort.Strings
RECURSIVE InsertString(_, _)
InsertString(str, seq) ==
  IF seq = <<>> THEN <<str>>
  ELSE IF StrLess(str, Head(seq)) THEN <<str>> \o seq
  ELSE <<Head(seq)>> \o InsertString(str, Tail(seq))

RECURSIVE SortStrings(_)
SortStrings(seq) ==
  IF seq = <<>> THEN <<>> ELSE InsertString(Head(seq), SortStrings(Tail(seq)))

\* The end of S3FS.Glob, once glob returned g.
GlobGlobbed(pattern, g) ==
  IF g.err # NilErr \/ g.diverges
    THEN [err |-> g.err, keys |-> <<>>, diverges |-> g.diverges, calls |-> g.calls]
  ELSE [err |-> NilErr, keys |-> SortStrings(FilterMatches(<<>>, g.matches, pattern)),
        diverges |-> FALSE, calls |-> g.calls]

\* The first branch of S3FS.Glob, with the fields of the other branch.
GlobOfRoot(r) ==
  [err |-> r.err, keys |-> r.keys, diverges |-> FALSE, calls |-> r.calls]

\* S3FS.Glob.  The patterns explored hold no "[" and no "\\", so that
\* path.Match(pattern, "") reports no syntax error.
Glob(fs, st, pattern) ==
  IF pattern = EMPTY \/ pattern = <<"*">>
    THEN GlobOfRoot(GlobRoot(fs, st))
  ELSE GlobGlobbed(pattern,
                   glob(fs, st, <<EMPTY>>, SplitSlash(pattern), <<>>, <<>>))

\* The sizes NewWithAPI gives an adapter.
defaultDirOpenBufferSize == 100
defaultListBufferSize == 1000

\* NewWithAPI: an adapter of the bucket with the default sizes and no dir.
NewWithAPI ==
  [DirOpenBufferSize |-> defaultDirOpenBufferSize,
   ListBufferSize |-> defaultListBufferSize, dir |-> EMPTY]

\* S3FS.Sub: a new adapter from NewWithAPI whose dir is the receiver's dir
\* joined with dir; the receiver's buffer sizes are not carried over.
Sub(fs, dir) ==
  IF ~ValidPath(dir)
    THEN [err |-> toPathError(Bare("ErrInvalid"), "Sub", dir), ok |-> FALSE,
          fs |-> NewWithAPI, calls |-> <<>>]
  ELSE [err |-> NilErr, ok |-> TRUE,
        fs |-> [NewWithAPI EXCEPT !.dir = Join(fs.dir, dir)], calls |-> <<>>]

\* A MkdirAll that marks the directory with an empty object.
MkdirAllMarked(fs, st, dir) ==
  [err |-> NilErr, st |-> PutObject(st, key(fs, dir) \o SLASH, <<>>),
   calls |-> <<"PutObject">>]

\* S3FS.MkdirAll
MkdirAll(fs, st, dir) == [err |-> NilErr, st |-> st, calls |-> <<>>]

\* No write handle.
NoWriter ==
  [name |-> EMPTY, key |-> EMPTY, buf |-> <<>>, bufNil |-> TRUE,
   wrote |-> FALSE, fsys |-> <<>>, puts |-> 0]

\* The checks of CreateFile without the probe of the parent.
CreateFileUnprobed(fs, name, dir, f, o, p) ==
  IF f.err # NilErr /\ ~isNotExist(f.err)
    THEN [ok |-> FALSE, err |-> toPathError(f.err, "CreateFile", name),
          file |-> NoWriter, calls |-> f.calls]
  ELSE IF f.err # NilErr /\ o.err = NilErr
    THEN [ok |-> FALSE, err |-> toPathError(Bare("EISDIR"), "CreateFile", name),
          file |-> NoWriter, calls |-> f.calls \o o.calls]
  ELSE [ok |-> TRUE, err |-> NilErr, file |-> newS3WriterFile(fs, name),
        calls |-> f.calls \o (IF f.err # NilErr THEN o.calls ELSE <<>>)]

\* The checks of S3FS.CreateFile on a valid name: f is openFile(name), o is
\* s3Dir.open(1) on name (called only when f is not-exist), p is
\* openFile(dir) for dir the parent of name.
CreateFileProbed(fs, name, dir, f, o, p) ==
  IF f.err # NilErr /\ ~isNotExist(f.err)
    THEN [ok |-> FALSE, err |-> toPathError(f.err, "CreateFile", name),
          file |-> NoWriter, calls |-> f.calls]
  ELSE IF f.err # NilErr /\ o.err = NilErr
    THEN [ok |-> FALSE, err |-> toPathError(Bare("EISDIR"), "CreateFile", name),
          file |-> NoWriter, calls |-> f.calls \o o.calls]
  ELSE IF p.err = NilErr
    THEN [ok |-> FALSE, err |-> toPathError(Bare("ENOTDIR"), "CreateFile", dir),
          file |-> NoWriter,
          calls |-> f.calls \o (IF f.err # NilErr THEN o.calls ELSE <<>>) \o p.calls]
  ELSE [ok |-> TRUE, err |-> NilErr, file |-> newS3WriterFile(fs, name),
        calls |-> f.calls \o (IF f.err # NilErr THEN o.calls ELSE <<>>) \o p.calls]

\* S3FS.CreateFile
CreateFile(fs, st, name) ==
  IF ~ValidPath(name)
    THEN [ok |-> FALSE, err |-> toPathError(Bare("ErrInvalid"), "CreateFile", name),
          file |-> NoWriter, calls |-> <<>>]
  ELSE CreateFileProbed(fs, name, Dir(name), openFile(fs, st, name),
                        open(st, newS3Dir(fs, name), 1),
                        openFile(fs, st, Dir(name)))

\* The body streams of GetObject.  newS3File keeps o.Body in the s3File, so
\* the result f of openFile holds one open stream when it holds a file.
Bodies(f) == IF f.err = NilErr THEN 1 ELSE 0

\* The streams S3FS.Stat leaves open with no handle: Stat returns the s3File
\* as an fs.FileInfo and never closes it.
StatLeftOpen(f) == Bodies(f)

\* S3FS.ReadFile closes the file it opened (defer f.Close()).
ReadFileLeftOpen(f) == Bodies(f) - Bodies(f)

\* S3FS.Open hands the s3File, a handle with Close, to the caller.
OpenLeftOpen(f) == 0

\* S3FS.CreateFile drops the result of both openFile calls: f on the name
\* and, when the checks get that far, p on the parent; o is s3Dir.open(1).
CreateFileLeftOpen(f, o, p) ==
  Bodies(f) +
  (IF (f.err # NilErr /\ ~isNotExist(f.err)) \/ (f.err # NilErr /\ o.err = NilErr)
     THEN 0 ELSE Bodies(p))

\* A store call that fails with an error other than NoSuchKey.
StoreFailure == Bare("InternalError")

FailedGet == [err |-> StoreFailure, Body |-> <<>>, ContentLength |-> 0]

\* S3FS.openFile when the GetObject it issues, if it issues one, fails.
openFileFailing(fs, st, name, r) ==
  IF r.calls = <<>> THEN r ELSE openFileGot(name, FailedGet)

\* s3Dir.list when its list call fails: no entries and the error as it is.
listFailed(d) ==
  [d |-> [d EXCEPT !.cache = <<>>], entries |-> <<>>, err |-> StoreFailure,
   calls |-> <<"ListObjectsV2">>]

\* s3Dir.open when the list call fails.
openFailing(d) == openListed(d, listFailed(d))

\* The probes of CreateFile and Open, the one named by fault failing if it
\* is issued: "target" the get on the name, "listing" the list on the name,
\* "parent" the get on the parent.
ProbeTarget(fs, st, name, fault) ==
  IF fault = "target" THEN openFileFailing(fs, st, name, openFile(fs, st, name))
  ELSE openFile(fs, st, name)

ProbeListing(fs, st, name, n, fault) ==
  IF fault = "listing" THEN openFailing(newS3Dir(fs, name))
  ELSE open(st, newS3Dir(fs, name), n)

ProbeParent(fs, st, name, fault) ==
  IF fault = "parent"
    THEN openFileFailing(fs, st, Dir(name), openFile(fs, st, Dir(name)))
  ELSE openFile(fs, st, Dir(name))

\* The place among the calls of the operation of the call that failed, 0
\* when the call was not issued: r is what the operation returned, f what
\* the get on the name returned.
FailedAt(fault, f, r) ==
  CASE fault = "target" -> IF f.calls # <<>> THEN 1 ELSE 0
    [] fault = "listing" ->
         IF f.err # NilErr /\ isNotExist(f.err) THEN Len(f.calls) + 1 ELSE 0
    [] fault = "parent" ->
         IF r.calls # <<>> /\ Last(r.calls) = "GetObject" /\ Len(r.calls) > Len(f.calls)
           THEN Len(r.calls) ELSE 0

\* S3FS.CreateFile and S3FS.Open with a failing store call.
CreateFileFailing(fs, st, name, fault) ==
  IF ~ValidPath(name)
    THEN [ok |-> FALSE, err |-> toPathError(Bare("ErrInvalid"), "CreateFile", name),
          file |-> NoWriter, calls |-> <<>>]
  ELSE CreateFileProbed(fs, name, Dir(name), ProbeTarget(fs, st, name, fault),
                        ProbeListing(fs, st, name, 1, fault),
                        ProbeParent(fs, st, name, fault))

OpenFailing(fs, st, name, fault) ==
  Opened(ProbeTarget(fs, st, name, fault),
         ProbeListing(fs, st, name, fs.DirOpenBufferSize, fault))

\* A removal that reports a missing object.
RemoveFileStrict(fs, st, name) ==
  IF key(fs, name) \in DOMAIN st
    THEN [err |-> NilErr, st |-> DeleteObject(st, key(fs, name)),
          calls |-> <<"DeleteObject">>]
    ELSE [err |-> PathError("RemoveFile", name, Bare("ErrNotExist")), st |-> st,
          calls |-> <<"DeleteObject">>]

\* S3FS.RemoveFile
RemoveFile(fs, st, name) ==
  [err |-> NilErr, st |-> DeleteObject(st, key(fs, name)),
   calls |-> <<"DeleteObject">>]

\* The keys of a page of objects.
KeysOf(os) == {os[i].Key : i \in 1..Len(os)}

\* The loop of S3FS.RemoveAll: list a page after startAfter, delete its
\* keys; RemoveAllListed is its body once the list call returned output.
RECURSIVE RemoveAllLoop(_, _, _, _, _)
RemoveAllListed(fs, st, prefix, startAfter, calls, output) ==
  IF ~output.IsTruncated
    THEN [err |-> NilErr, st |-> DeleteObjects(st, KeysOf(output.Contents)),
          calls |-> calls \o <<"ListObjectsV2", "DeleteObjects">>]
  ELSE RemoveAllLoop(fs, DeleteObjects(st, KeysOf(output.Contents)), prefix,
                     IF output.Contents = <<>> THEN startAfter
                     ELSE Last(output.Contents).Key,
                     calls \o <<"ListObjectsV2", "DeleteObjects">>)

RemoveAllLoop(fs, st, prefix, startAfter, calls) ==
  RemoveAllListed(fs, st, prefix, startAfter, calls,
                  ListObjectsV2(st, prefix, FALSE, fs.ListBufferSize, startAfter))

\* S3FS.RemoveAll
RemoveAll(fs, st, dir) ==
  RemoveAllLoop(fs, st, normalizePrefix(key(fs, dir)), EMPTY, <<>>)

\* S3FS.RemoveAll when the store call at place failAt of its calls fails:
\* the list call of a page, or the DeleteObjects of a page (which then
\* deletes nothing).
RECURSIVE RemoveAllFailingLoop(_, _, _, _, _, _, _)
RemoveAllListFailed(st, dir, calls) ==
  [err |-> toPathError(StoreFailure, "RemoveAll", dir), st |-> st,
   calls |-> calls \o <<"ListObjectsV2">>]

\* A RemoveAll that goes on after a failed DeleteObjects.
RemoveAllDeleteIgnored(fs, st, dir, prefix, startAfter, calls, failAt, output) ==
  IF ~output.IsTruncated
    THEN [err |-> NilErr, st |-> st,
          calls |-> calls \o <<"ListObjectsV2", "DeleteObjects">>]
  ELSE RemoveAllFailingLoop(fs, st, dir, prefix,
                            IF output.Contents = <<>> THEN startAfter
                            ELSE Last(output.Contents).Key,
                            calls \o <<"ListObjectsV2", "DeleteObjects">>, failAt)

RemoveAllDeleteFailed(fs, st, dir, prefix, startAfter, calls, failAt, output) ==
  [err |-> toPathError(StoreFailure, "RemoveAll", dir), st |-> st,
   calls |-> calls \o <<"ListObjectsV2", "DeleteObjects">>]

RemoveAllFailingListed(fs, st, dir, prefix, startAfter, calls, failAt, output) ==
  IF Len(calls) + 2 = failAt
    THEN RemoveAllDeleteFailed(fs, st, dir, prefix, startAfter, calls, failAt, output)
  ELSE IF ~output.IsTruncated
    THEN [err |-> NilErr, st |-> DeleteObjects(st, KeysOf(output.Contents)),
          calls |-> calls \o <<"ListObjectsV2", "DeleteObjects">>]
  ELSE RemoveAllFailingLoop(fs, DeleteObjects(st, KeysOf(output.Contents)), dir,
                            prefix,
                            IF output.Contents = <<>> THEN startAfter
                            ELSE Last(output.Contents).Key,
                            calls \o <<"ListObjectsV2", "DeleteObjects">>, failAt)

RemoveAllFailingLoop(fs, st, dir, prefix, startAfter, calls, failAt) ==
  IF Len(calls) + 1 = failAt THEN RemoveAllListFailed(st, dir, calls)
  ELSE RemoveAllFailingListed(fs, st, dir, prefix, startAfter, calls, failAt,
                              ListObjectsV2(st, prefix, FALSE, fs.ListBufferSize,
                                            startAfter))

RemoveAllFailing(fs, st, dir, failAt) ==
  RemoveAllFailingLoop(fs, st, dir, normalizePrefix(key(fs, dir)), EMPTY, <<>>,
                       failAt)

\* S3FS.RemoveAll while another client of the bucket puts body at the key k
\* just before the store call at place putAt of RemoveAll's calls.
Raced(st, place, putAt, k, body) ==
  IF place = putAt THEN PutObject(st, k, body) ELSE st

\* A RemoveAll whose delete takes every key under the prefix at that time.
RECURSIVE RemoveAllRacingLoop(_, _, _, _, _, _, _, _)
RemoveAllRacingSwept(fs, st, prefix, startAfter, calls, putAt, k, body, output) ==
  IF ~output.IsTruncated
    THEN [err |-> NilErr,
          st |-> DeleteObjects(st, {o \in DOMAIN st : HasPrefix(o, prefix)}),
          calls |-> calls \o <<"ListObjectsV2", "DeleteObjects">>]
  ELSE RemoveAllRacingLoop(fs,
                           DeleteObjects(st, {o \in DOMAIN st : HasPrefix(o, prefix)}),
                           prefix,
                           IF output.Contents = <<>> THEN startAfter
                           ELSE Last(output.Contents).Key,
                           calls \o <<"ListObjectsV2", "DeleteObjects">>,
                           putAt, k, body)

\* The DeleteObjects of a page and what follows it.
RemoveAllRacingDeleting(fs, st, prefix, startAfter, calls, putAt, k, body, output) ==
  IF ~output.IsTruncated
    THEN [err |-> NilErr, st |-> DeleteObjects(st, KeysOf(output.Contents)),
          calls |-> calls \o <<"ListObjectsV2", "DeleteObjects">>]
  ELSE RemoveAllRacingLoop(fs, DeleteObjects(st, KeysOf(output.Contents)), prefix,
                           IF output.Contents = <<>> THEN startAfter
                           ELSE Last(output.Contents).Key,
                           calls \o <<"ListObjectsV2", "DeleteObjects">>,
                           putAt, k, body)

\* The list call returned output; the other client may put before the delete.
RemoveAllRacingListed(fs, st, prefix, startAfter, calls, putAt, k, body, output) ==
  RemoveAllRacingDeleting(fs, Raced(st, Len(calls) + 2, putAt, k, body), prefix,
                          startAfter, calls, putAt, k, body, output)

RemoveAllRacingListing(fs, st, prefix, startAfter, calls, putAt, k, body) ==
  RemoveAllRacingListed(fs, st, prefix, startAfter, calls, putAt, k, body,
                        ListObjectsV2(st, prefix, FALSE, fs.ListBufferSize,
                                      startAfter))

\* One round of the loop; the other client may put before the list call.
RemoveAllRacingLoop(fs, st, prefix, startAfter, calls, putAt, k, body) ==
  RemoveAllRacingListing(fs, Raced(st, Len(calls) + 1, putAt, k, body), prefix,
                         startAfter, calls, putAt, k, body)

RemoveAllRacing(fs, st, dir, putAt, k, body) ==
  RemoveAllRacingLoop(fs, st, normalizePrefix(key(fs, dir)), EMPTY, <<>>, putAt,
                      k, body)

\* S3FS.RemoveAll among other clients of the bucket: evs[n] is what another
\* client does just before the store call at place n of RemoveAll's calls:
\* nothing, a put at a key, or a delete of a key.
NoEvent == [kind |-> "none", k |-> EMPTY]

EventAt(evs, place) == IF place <= Len(evs) THEN evs[place] ELSE NoEvent

Disturbed(st, ev) ==
  CASE ev.kind = "put" -> PutObject(st, ev.k, <<1>>)
    [] ev.kind = "delete" -> DeleteObject(st, ev.k)
    [] OTHER -> st

\* A RemoveAll that stops after the first page.
RECURSIVE RemoveAllAmongLoop(_, _, _, _, _, _)
RemoveAllAmongOnePage(fs, st, prefix, startAfter, calls, evs, output) ==
  [err |-> NilErr, st |-> DeleteObjects(st, KeysOf(output.Contents)),
   calls |-> calls \o <<"ListObjectsV2", "DeleteObjects">>]

\* The DeleteObjects of a page and what follows it.
RemoveAllAmongDeleting(fs, st, prefix, startAfter, calls, evs, output) ==
  IF ~output.IsTruncated
    THEN [err |-> NilErr, st |-> DeleteObjects(st, KeysOf(output.Contents)),
          calls |-> calls \o <<"ListObjectsV2", "DeleteObjects">>]
  ELSE RemoveAllAmongLoop(fs, DeleteObjects(st, KeysOf(output.Contents)), prefix,
                          IF output.Contents = <<>> THEN startAfter
                          ELSE Last(output.Contents).Key,
                          calls \o <<"ListObjectsV2", "DeleteObjects">>, evs)

RemoveAllAmongListed(fs, st, prefix, startAfter, calls, evs, output) ==
  RemoveAllAmongDeleting(fs, Disturbed(st, EventAt(evs, Len(calls) + 2)), prefix,
                         startAfter, calls, evs, output)

RemoveAllAmongListing(fs, st, prefix, startAfter, calls, evs) ==
  RemoveAllAmongListed(fs, st, prefix, startAfter, calls, evs,
                       ListObjectsV2(st, prefix, FALSE, fs.ListBufferSize,
                                     startAfter))

RemoveAllAmongLoop(fs, st, prefix, startAfter, calls, evs) ==
  RemoveAllAmongListing(fs, Disturbed(st, EventAt(evs, Len(calls) + 1)), prefix,
                        startAfter, calls, evs)

RemoveAllAmong(fs, st, dir, evs) ==
  RemoveAllAmongLoop(fs, st, normalizePrefix(key(fs, dir)), EMPTY, <<>>, evs)

\* The end of S3FS.WriteFile, once Close on the handle returned cl.
WriteFileClosed(c, w, cl) ==
  [err |-> cl.err, n |-> IF cl.panicked THEN 0 ELSE w.n, st |-> cl.st,
   panicked |-> cl.panicked, calls |-> c.calls \o cl.calls]

\* The rest of S3FS.WriteFile, once Write on the handle returned w.
WriteFileWritten(st, name, c, w) ==
  IF w.err # NilErr
    THEN [err |-> toPathError(w.err, "Write", name), n |-> 0, st |-> st,
          panicked |-> FALSE, calls |-> c.calls]
  ELSE WriteFileClosed(c, w, WriterClose(st, w.f))

\* The rest of S3FS.WriteFile, once CreateFile returned c.
WriteFileCreated(st, name, p, c) ==
  IF ~c.ok
    THEN [err |-> c.err, n |-> 0, st |-> st, panicked |-> FALSE, calls |-> c.calls]
  ELSE WriteFileWritten(st, name, c, WriterWrite(c.file, p))

\* S3FS.WriteFile: CreateFile, one Write, Close.
WriteFile(fs, st, name, p) ==
  WriteFileCreated(st, name, p, CreateFile(fs, st, name))

(***************************************************************************)
(* The state: the bucket, the adapter, the handles the caller holds and    *)
(* the result of the last call.                                            *)
(***************************************************************************)
VARIABLES
  store,   \* the bucket: key -> body
  fsys,    \* the S3FS: DirOpenBufferSize, ListBufferSize, dir
  wfile,   \* the write handles the caller holds, each with whether a Close on it returned
  dirh,    \* the directory handle the caller holds: <<>> or <<[d, got, eof]>>
  sub,     \* the adapter Sub returned to the caller: <<>> or <<S3FS>>
  mock,    \* the listing the caller pages through on an FSS3API: <<>> or
           \* <<[input, output, start, got]>>
  ret      \* the last call and what it returned

vars == <<store, fsys, wfile, dirh, sub, mock, ret>>

\* The keys a bucket may hold, and the body each has when present at start:
\* a file "a" beside the keys under "a/", and under "a/" two files, a
\* deeper key and a file after it.
KA == <<"a">>
KAB == <<"a", "/", "b">>
KAC == <<"a", "/", "c">>
KAD == <<"a", "/", "d">>
KADX == <<"a", "/", "d", "/", "x">>
KAE == <<"a", "/", "e">>
KF == <<"f">>
Universe == {KA, KAB, KAC, KADX, KAE}

InitBody(k) ==
  CASE k = KA -> <<1>> [] k = KAB -> <<1, 2>> [] k = KAC -> <<2>>
    [] k = KADX -> <<>> [] k = KAE -> <<2, 1>>

\* The paths the operations are called with: valid ones (present or not in
\* the bucket) and invalid ones.
ValidNames == {DOT, KA, KAB, KAC, KAD, KADX, KAE, KF, <<"a", "/", "b", "/", "e">>}
InvalidNames == {EMPTY, <<"a", "/", ".">>, <<".", ".", "/", "f">>}
Names == ValidNames \cup InvalidNames

STAR == <<"*">>
RootPatterns == {EMPTY, STAR}

\* The patterns Glob is called with: the two of the root, one segment, and
\* several segments with and without a literal part.
Patterns ==
  RootPatterns \cup
  {<<"?">>, <<"a", "/", "*">>, <<"*", "/", "*">>, <<"a", "/", "*", "/", "*">>,
   <<"a", "/", "d", "*">>, <<"*", "/", "?", "/", "x">>}

Bytes == {1, 2}
RECURSIVE SeqsUpTo(_)
SeqsUpTo(n) ==
  IF n = 0 THEN {<<>>}
  ELSE SeqsUpTo(n - 1) \cup
       {Append(q, b) : q \in {r \in SeqsUpTo(n - 1) : Len(r) = n - 1}, b \in Bytes}
Payloads == SeqsUpTo(MaxLen)

Buckets == {[k \in K |-> InitBody(k)] : K \in SUBSET Universe}

\* What a call returned: op and name are the call, err its error, panicked
\* whether it panicked instead of returning, info, entries, data and n its
\* results, calls the store calls it issued, handle whether it returned a
\* handle, diverged whether it loops forever instead of returning, recv the
\* adapter it was made on: "fsys", or "sub" for the one Sub returned.  pre is
\* a fact about the state before the call: for RemoveFile that the object
\* existed, for RemoveAll that keys lay under the directory, for Write and
\* Close on a write handle that a Close had already returned on it.
NoRet ==
  [op |-> "none", name |-> EMPTY, err |-> NilErr, panicked |-> FALSE,
   info |-> NoInfo, entries |-> <<>>, data |-> <<>>, n |-> 0, calls |-> <<>>,
   pre |-> FALSE, handle |-> FALSE, diverged |-> FALSE, recv |-> "fsys"]

Ret(op, name, err, calls) ==
  [NoRet EXCEPT !.op = op, !.name = name, !.err = err, !.calls = calls]

\* NewWithAPI, with the two buffer sizes then set by the caller.
Init ==
  /\ store \in Buckets
  /\ fsys \in [DirOpenBufferSize : 1..MaxPage, ListBufferSize : 1..MaxPage,
               dir : {EMPTY}]
  /\ wfile = <<>>
  /\ dirh = <<>>
  /\ sub = <<>>
  /\ mock = <<>>
  /\ ret = NoRet

\* The same with both buffer sizes fixed, for the write path, which lists
\* with a page of 1 only.
InitWrite ==
  /\ store \in Buckets
  /\ fsys = [DirOpenBufferSize |-> MaxPage, ListBufferSize |-> MaxPage, dir |-> EMPTY]
  /\ wfile = <<>>
  /\ dirh = <<>>
  /\ sub = <<>>
  /\ mock = <<>>
  /\ ret = NoRet

\* The caller is between calls.
Idle == ret.op = "none"

\* The caller takes the result of the call.
Return ==
  /\ ~Idle
  /\ ~ret.diverged
  /\ ret' = NoRet
  /\ UNCHANGED <<store, fsys, sub, mock, wfile, dirh>>

\* Open(name) returned r; a directory handle is kept by the caller.
OpenReturns(name, r) ==
  /\ ret' = [Ret("Open", name, r.err, r.calls) EXCEPT
               !.info = r.info, !.data = r.file.buf, !.handle = r.err = NilErr]
  /\ dirh' = IF r.isDir
               THEN <<[name |-> name, d |-> r.dir, k |-> 0, got |-> <<>>,
                       done |-> FALSE]>>
               ELSE dirh
  /\ UNCHANGED <<store, fsys, sub, mock, wfile>>

DoOpen(name) == Idle /\ OpenReturns(name, Open(fsys, store, name))

StatReturns(name, r) ==
  /\ ret' = [Ret("Stat", name, r.err, r.calls) EXCEPT !.info = r.info]
  /\ UNCHANGED <<store, fsys, sub, mock, wfile, dirh>>

DoStat(name) == Idle /\ StatReturns(name, Stat(fsys, store, name))

ReadFileReturns(name, r) ==
  /\ ret' = [Ret("ReadFile", name, r.err, r.calls) EXCEPT !.data = r.data]
  /\ UNCHANGED <<store, fsys, sub, mock, wfile, dirh>>

DoReadFile(name) == Idle /\ ReadFileReturns(name, ReadFile(fsys, store, name))

ReadDirReturns(name, r) ==
  /\ ret' = [Ret("ReadDir", name, r.err, r.calls) EXCEPT !.entries = r.entries]
  /\ UNCHANGED <<store, fsys, sub, mock, wfile, dirh>>

DoReadDir(name) == Idle /\ ReadDirReturns(name, ReadDir(fsys, store, name))

GlobReturns(pattern, r) ==
  /\ ret' = [Ret("Glob", pattern, r.err, r.calls) EXCEPT
               !.entries = r.keys, !.diverged = r.diverges]
  /\ UNCHANGED <<store, fsys, sub, mock, wfile, dirh>>

DoGlob(pattern) == Idle /\ GlobReturns(pattern, Glob(fsys, store, pattern))

MkdirAllReturns(name, r) ==
  /\ ret' = Ret("MkdirAll", name, r.err, r.calls)
  /\ store' = r.st
  /\ UNCHANGED <<fsys, sub, mock, wfile, dirh>>

DoMkdirAll(name) == Idle /\ MkdirAllReturns(name, MkdirAll(fsys, store, name))

RemoveFileReturns(name, r) ==
  /\ ret' = [Ret("RemoveFile", name, r.err, r.calls) EXCEPT
               !.pre = key(fsys, name) \in DOMAIN store]
  /\ store' = r.st
  /\ UNCHANGED <<fsys, sub, mock, wfile, dirh>>

DoRemoveFile(name) == Idle /\ RemoveFileReturns(name, RemoveFile(fsys, store, name))

RemoveAllReturns(name, r) ==
  /\ ret' = [Ret("RemoveAll", name, r.err, r.calls) EXCEPT
               !.pre = \E k \in DOMAIN store :
                         HasPrefix(k, normalizePrefix(key(fsys, name)))]
  /\ store' = r.st
  /\ UNCHANGED <<fsys, sub, mock, wfile, dirh>>

DoRemoveAll(name) == Idle /\ RemoveAllReturns(name, RemoveAll(fsys, store, name))

\* CreateFile(name) returned c; the caller keeps the handle it got.
CreateFileReturns(name, c) ==
  /\ ret' = [Ret("CreateFile", name, c.err, c.calls) EXCEPT !.handle = c.ok]
  /\ wfile' = IF c.ok THEN <<[f |-> c.file, closed |-> FALSE]>> ELSE wfile
  /\ UNCHANGED <<store, fsys, sub, mock, dirh>>

DoCreateFile(name) == Idle /\ CreateFileReturns(name, CreateFile(fsys, store, name))

\* Write(p) on the held write handle returned w.
WriteReturns(p, w) ==
  /\ ret' = [Ret("Write", wfile[1].f.key, w.err, <<>>) EXCEPT
               !.n = w.n, !.data = p, !.pre = wfile[1].closed]
  /\ wfile' = <<[wfile[1] EXCEPT !.f = w.f]>>
  /\ UNCHANGED <<store, fsys, sub, mock, dirh>>

\* A Write that uploads what the handle holds as it goes.
DoWriteThrough(p) ==
  /\ Idle
  /\ wfile # <<>>
  /\ Len(wfile[1].f.buf) + Len(p) <= MaxLen
  /\ ret' = [Ret("Write", wfile[1].f.key, NilErr, <<"PutObject">>) EXCEPT
               !.n = Len(p), !.data = p, !.pre = wfile[1].closed]
  /\ wfile' = <<[wfile[1] EXCEPT !.f = WriterWrite(wfile[1].f, p).f]>>
  /\ store' = PutObject(store, key(fsys, wfile[1].f.key), wfile[1].f.buf \o p)
  /\ UNCHANGED <<fsys, sub, mock, dirh>>

DoWrite(p) ==
  /\ Idle
  /\ wfile # <<>>
  /\ Len(wfile[1].f.buf) + Len(p) <= MaxLen
  /\ WriteReturns(p, WriterWrite(wfile[1].f, p))

\* Close() on the held write handle returned cl, or panicked.
CloseReturns(cl) ==
  /\ ret' = [Ret("Close", wfile[1].f.key, cl.err, cl.calls) EXCEPT
               !.panicked = cl.panicked, !.pre = wfile[1].closed]
  /\ wfile' = <<[f |-> cl.f, closed |-> wfile[1].closed \/ ~cl.panicked]>>
  /\ store' = cl.st
  /\ UNCHANGED <<fsys, sub, mock, dirh>>

DoClose == Idle /\ wfile # <<>> /\ CloseReturns(WriterClose(store, wfile[1].f))

WriteFileReturns(name, p, r) ==
  /\ ret' = [Ret("WriteFile", name, r.err, r.calls) EXCEPT
               !.n = r.n, !.data = p, !.panicked = r.panicked]
  /\ store' = r.st
  /\ UNCHANGED <<fsys, sub, mock, wfile, dirh>>

DoWriteFile(name, p) ==
  Idle /\ WriteFileReturns(name, p, WriteFile(fsys, store, name, p))

\* ReadDir(n) on the held directory handle returned r.  The caller reads a
\* handle with one n throughout, until it gets io.EOF.
DirReadDirReturns(n, r) ==
  /\ ret' = [Ret("DirReadDir", dirh[1].name, r.err, r.calls) EXCEPT
               !.entries = r.entries, !.n = n]
  /\ dirh' = <<[dirh[1] EXCEPT !.d = r.d, !.k = n,
                               !.got = @ \o NamesOf(r.entries),
                               !.done = r.err = Bare("EOF")]>>
  /\ UNCHANGED <<store, fsys, sub, mock, wfile>>

DoDirReadDir(n) ==
  /\ Idle
  /\ dirh # <<>>
  /\ ~dirh[1].done
  /\ dirh[1].k \in {0, n}
  /\ DirReadDirReturns(n, DirReadDir(fsys, store, dirh[1].d, n))

\* Sub(dir) returned r; the caller keeps the adapter it got.
SubReturns(dir, r) ==
  /\ ret' = [Ret("Sub", dir, r.err, r.calls) EXCEPT !.handle = r.ok]
  /\ sub' = IF r.ok THEN <<r.fs>> ELSE sub
  /\ UNCHANGED <<store, fsys, wfile, dirh, mock>>

DoSub(dir) == Idle /\ SubReturns(dir, Sub(fsys, dir))

\* The operations a caller makes on an adapter with a path, and Glob.
PathOps ==
  {"Open", "Stat", "ReadDir", "ReadFile", "WriteFile", "RemoveFile", "RemoveAll"}

\* What Open and Glob return, with the fields named as ret names them.
OpenView(r) ==
  [err |-> r.err, calls |-> r.calls, info |-> r.info, data |-> r.file.buf,
   handle |-> r.err = NilErr]

GlobView(r) ==
  [err |-> r.err, calls |-> r.calls, entries |-> r.keys, diverged |-> r.diverges]

\* The call op(name), with payload p for WriteFile, on the adapter fs.
CallOn(fs, st, op, name, p) ==
  CASE op = "Open" -> OpenView(Open(fs, st, name))
    [] op = "Stat" -> Stat(fs, st, name)
    [] op = "ReadDir" -> ReadDir(fs, st, name)
    [] op = "ReadFile" -> ReadFile(fs, st, name)
    [] op = "Glob" -> GlobView(Glob(fs, st, name))
    [] op = "WriteFile" -> WriteFile(fs, st, name, p)
    [] op = "RemoveFile" -> RemoveFile(fs, st, name)
    [] op = "RemoveAll" -> RemoveAll(fs, st, name)

\* What the caller has once the call on the adapter Sub returned gave r:
\* the result, and the bucket the call left.
ViewReturned(st, op, name, p, r) ==
  [ret |-> [f \in DOMAIN NoRet |->
              CASE f = "op" -> op
                [] f = "name" -> name
                [] f = "recv" -> "sub"
                [] f = "data" /\ op = "WriteFile" -> p
                [] f \in DOMAIN r -> r[f]
                [] OTHER -> NoRet[f]],
   st |-> IF "st" \in DOMAIN r THEN r.st ELSE st]

ViewCall(fs, st, op, name, p) ==
  ViewReturned(st, op, name, p, CallOn(fs, st, op, name, p))

SubViewReturns(v) ==
  /\ ret' = v.ret
  /\ store' = v.st
  /\ UNCHANGED <<fsys, sub, mock, wfile, dirh>>

\* A call on the adapter Sub returned.
DoSubView(op, name, p) ==
  /\ Idle
  /\ sub # <<>>
  /\ SubViewReturns(ViewCall(sub[1], store, op, name, p))

\* The keys of a page of objects, in the order of the page.
RECURSIVE KeySeq(_)
KeySeq(os) == IF os = <<>> THEN <<>> ELSE <<Head(os).Key>> \o KeySeq(Tail(os))

\* ListObjectsV2(input) on the FSS3API returned output: the first call of a
\* listing, or the next one.
MockListReturns(input, start, got, output) ==
  /\ mock' = <<[input |-> input, output |-> output, start |-> start,
                got |-> got \o KeySeq(output.Contents)]>>
  /\ UNCHANGED <<store, fsys, wfile, dirh, sub, ret>>

\* The caller starts the one listing it makes.
DoMockList(input) ==
  /\ mock = <<>>
  /\ MockListReturns(input, input.StartAfter, <<>>,
                     MockListObjectsV2(store, input))

\* The caller asks for the page after the last key of the page it got.
MockListAfter(input) ==
  MockListReturns(input, mock[1].start, mock[1].got, MockListObjectsV2(store, input))

DoMockNext ==
  /\ mock # <<>>
  /\ mock[1].output.err = NilErr
  /\ mock[1].output.IsTruncated
  /\ mock[1].output.Contents # <<>>
  /\ MockListAfter([mock[1].input EXCEPT
                      !.StartAfter = Last(mock[1].output.Contents).Key])

\* An operation returned r after the store call at place n of its calls
\* failed (n = 0: the call was not issued); the caller keeps no handle.
FailingReturns(op, name, r, n) ==
  /\ ret' = [Ret(op, name, r.err, r.calls) EXCEPT !.n = n, !.pre = n > 0]
  /\ UNCHANGED <<store, fsys, wfile, dirh, sub, mock>>

CreateFileFailed(name, fault, r) ==
  FailingReturns("CreateFile", name, r,
                 IF ValidPath(name)
                   THEN FailedAt(fault, openFile(fsys, store, name), r) ELSE 0)

DoCreateFileFailing(name, fault) ==
  Idle /\ CreateFileFailed(name, fault, CreateFileFailing(fsys, store, name, fault))

OpenFailed(name, fault, r) ==
  FailingReturns("Open", name, r, FailedAt(fault, openFile(fsys, store, name), r))

DoOpenFailing(name, fault) ==
  Idle /\ OpenFailed(name, fault, OpenFailing(fsys, store, name, fault))

\* RemoveAll(name) returned r, the store failing the call at place failAt
\* if RemoveAll got that far.
RemoveAllFailed(name, failAt, r) ==
  /\ ret' = [Ret("RemoveAll", name, r.err, r.calls) EXCEPT
               !.n = failAt, !.pre = Len(r.calls) >= failAt]
  /\ store' = r.st
  /\ UNCHANGED <<fsys, wfile, dirh, sub, mock>>

DoRemoveAllFailing(name, failAt) ==
  Idle /\ RemoveAllFailed(name, failAt, RemoveAllFailing(fsys, store, name, failAt))

\* RemoveAll(name) returned r while another client put body at k before the
\* call at place putAt, if RemoveAll issued that many calls.
RemoveAllRaced(name, putAt, k, body, r) ==
  /\ ret' = [Ret("RemoveAll", name, r.err, r.calls) EXCEPT
               !.n = putAt, !.pre = Len(r.calls) >= putAt,
               !.entries = <<k>>, !.data = body]
  /\ store' = r.st
  /\ UNCHANGED <<fsys, wfile, dirh, sub, mock>>

DoRemoveAllRacing(name, putAt, k, body) ==
  Idle /\ RemoveAllRaced(name, putAt, k, body,
                         RemoveAllRacing(fsys, store, name, putAt, k, body))

\* A caller that holds several write handles at once.  CreateFile(name)
\* returned c; the caller keeps the handle beside those it has.
CreateFileMore(name, c) ==
  /\ ret' = [Ret("CreateFile", name, c.err, c.calls) EXCEPT !.handle = c.ok]
  /\ wfile' = IF c.ok THEN Append(wfile, [f |-> c.file, closed |-> FALSE]) ELSE wfile
  /\ UNCHANGED <<store, fsys, sub, mock, dirh>>

DoCreateFileMore(name) ==
  /\ Idle
  /\ Len(wfile) < MaxHandles
  /\ CreateFileMore(name, CreateFile(fsys, store, name))

\* Write(p) on the i-th handle returned w.
WrittenOn(i, p, w) ==
  /\ ret' = [Ret("Write", wfile[i].f.key, w.err, <<>>) EXCEPT
               !.n = w.n, !.data = p, !.pre = wfile[i].closed]
  /\ wfile' = [wfile EXCEPT ![i] = [@ EXCEPT !.f = w.f]]
  /\ UNCHANGED <<store, fsys, sub, mock, dirh>>

DoWriteOn(i, p) ==
  /\ Idle
  /\ i <= Len(wfile)
  /\ Len(wfile[i].f.buf) + Len(p) <= MaxLen
  /\ WrittenOn(i, p, WriterWrite(wfile[i].f, p))

\* Close() on the i-th handle returned cl, or panicked; n is the handle.
ClosedOn(i, cl) ==
  /\ ret' = [Ret("Close", wfile[i].f.key, cl.err, cl.calls) EXCEPT
               !.panicked = cl.panicked, !.pre = wfile[i].closed, !.n = i]
  /\ wfile' = [wfile EXCEPT ![i] = [f |-> cl.f, closed |-> @.closed \/ ~cl.panicked]]
  /\ store' = cl.st
  /\ UNCHANGED <<fsys, sub, mock, dirh>>

DoCloseOn(i) ==
  /\ Idle
  /\ i <= Len(wfile)
  /\ ClosedOn(i, WriterClose(store, wfile[i].f))

\* RemoveAll(name) returned r among the events evs of other clients.
RemoveAllDisturbed(name, evs, r) ==
  /\ ret' = [Ret("RemoveAll", name, r.err, r.calls) EXCEPT !.entries = evs]
  /\ store' = r.st
  /\ UNCHANGED <<fsys, wfile, dirh, sub, mock>>

DoRemoveAllAmong(name, evs) ==
  Idle /\ RemoveAllDisturbed(name, evs, RemoveAllAmong(fsys, store, name, evs))

\* Read(p), len(p) = n, on the held write handle returned r.
WriterReadReturns(n, r) ==
  /\ ret' = [Ret("WriterRead", wfile[1].f.key, r.err, <<>>) EXCEPT
               !.n = r.n, !.data = r.data]
  /\ wfile' = <<[wfile[1] EXCEPT !.f = r.f]>>
  /\ UNCHANGED <<store, fsys, sub, mock, dirh>>

DoWriterRead(n) ==
  Idle /\ wfile # <<>> /\ WriterReadReturns(n, WriterRead(wfile[1].f, n))

\* Stat() on the held write handle returned r.
WriterStatReturns(r) ==
  /\ ret' = [Ret("WriterStat", wfile[1].f.key, r.err, <<>>) EXCEPT !.info = r.info]
  /\ wfile' = <<[wfile[1] EXCEPT !.f = r.f]>>
  /\ UNCHANGED <<store, fsys, sub, mock, dirh>>

DoWriterStat == Idle /\ wfile # <<>> /\ WriterStatReturns(WriterStat(wfile[1].f))

\* The call op(name) returned err after calls and left so many body streams
\* open that no handle of the caller holds.
StreamsLeft(op, name, err, calls, left) ==
  /\ ret' = [Ret(op, name, err, calls) EXCEPT !.n = left]
  /\ UNCHANGED <<store, fsys, wfile, dirh, sub, mock>>

DoStatStreams(name) ==
  /\ Idle
  /\ StreamsLeft("Stat", name, Stat(fsys, store, name).err,
                 Stat(fsys, store, name).calls,
                 StatLeftOpen(openFile(fsys, store, name)))

DoReadFileStreams(name) ==
  /\ Idle
  /\ StreamsLeft("ReadFile", name, ReadFile(fsys, store, name).err,
                 ReadFile(fsys, store, name).calls,
                 ReadFileLeftOpen(openFile(fsys, store, name)))

DoOpenStreams(name) ==
  /\ Idle
  /\ StreamsLeft("Open", name, Open(fsys, store, name).err,
                 Open(fsys, store, name).calls,
                 OpenLeftOpen(openFile(fsys, store, name)))

DoCreateFileStreams(name) ==
  /\ Idle
  /\ StreamsLeft("CreateFile", name, CreateFile(fsys, store, name).err,
                 CreateFile(fsys, store, name).calls,
                 IF ~ValidPath(name) THEN 0
                 ELSE CreateFileLeftOpen(openFile(fsys, store, name),
                                         open(store, newS3Dir(fsys, name), 1),
                                         openFile(fsys, store, Dir(name))))

\* The error e went through toS3NoSuckKeyIfNoExist, which returned t, and
\* then through toPathError(t, op, name); entries keeps e and t.
Translated(e, op, name, t) ==
  /\ ret' = [Ret(op, name, toPathError(t, op, name), <<>>) EXCEPT
               !.entries = <<e, t>>, !.pre = TRUE]
  /\ UNCHANGED <<store, fsys, wfile, dirh, sub, mock>>

DoTranslate(e, op, name) ==
  Idle /\ Translated(e, op, name, toS3NoSuckKeyIfNoExist(e))

\* The read side and the removals, on every adapter configuration.
Next ==
  \/ \E name \in Names : DoOpen(name)
  \/ \E name \in Names : DoStat(name)
  \/ \E name \in Names : DoReadFile(name)
  \/ \E name \in Names : DoReadDir(name)
  \/ \E pattern \in Patterns : DoGlob(pattern)
  \/ \E name \in Names : DoMkdirAll(name)
  \/ \E name \in Names : DoRemoveFile(name)
  \/ \E name \in Names : DoRemoveAll(name)
  \/ Return

Spec == Init /\ [][Next]_vars

\* The write side.
NextWrite ==
  \/ \E name \in Names : DoCreateFile(name)
  \/ \E p \in Payloads : DoWrite(p)
  \/ DoClose
  \/ Return

SpecWrite == InitWrite /\ [][NextWrite]_vars

\* WriteFile and the reads that follow it.
NextRoundTrip ==
  \/ \E name \in Names, p \in Payloads : DoWriteFile(name, p)
  \/ \E name \in Names : DoReadFile(name)
  \/ \E name \in Names : DoStat(name)
  \/ Return

SpecRoundTrip == InitWrite /\ [][NextRoundTrip]_vars

\* Directory handles read in batches.
NextDir ==
  \/ \E name \in ValidNames : DoOpen(name)
  \/ \E n \in 1..MaxPage : DoDirReadDir(n)
  \/ Return

SpecDir == Init /\ [][NextDir]_vars

\* The adapter as the caller set it up: each buffer size is the smallest, a
\* small one, or the one NewWithAPI gave.
InitSub ==
  /\ store \in Buckets
  /\ fsys \in [DirOpenBufferSize : {1, defaultDirOpenBufferSize},
               ListBufferSize : 1..MaxPage \cup {defaultListBufferSize},
               dir : {EMPTY}]
  /\ wfile = <<>>
  /\ dirh = <<>>
  /\ sub = <<>>
  /\ mock = <<>>
  /\ ret = NoRet

\* The directories Sub is called with.
SubDirs == {DOT, KA, KAD, EMPTY}

\* Sub and MkdirAll on the adapter, and the calls on the adapter Sub
\* returned.
NextSub ==
  \/ \E dir \in SubDirs : DoSub(dir)
  \/ \E name \in Names : DoMkdirAll(name)
  \/ \E op \in PathOps, name \in Names :
       \E p \in (IF op = "WriteFile" THEN Payloads ELSE {<<>>}) :
         DoSubView(op, name, p)
  \/ \E pattern \in Patterns : DoSubView("Glob", pattern, <<>>)
  \/ Return

SpecSub == InitSub /\ [][NextSub]_vars

\* The files below the bucket directory of an FSS3API: none is at the path
\* of a directory.
KAP == <<"a", ".">>
KADP == <<"a", "/", "d", ".">>
MockUniverse == {KAB, KADX, KADP, KAP, KF}

MockTrees == {[k \in K |-> <<1>>] : K \in SUBSET MockUniverse}

\* The list calls made on it: prefixes that name a directory, that end
\* inside a segment and that name nothing, with and without the delimiter.
MockPrefixes == {EMPTY, KA \o SLASH, KAD \o SLASH, KA, KAD, KF \o SLASH}

MockInputs ==
  [Prefix : MockPrefixes, Delimiter : {EMPTY, SLASH}, MaxKeys : 1..MaxPage,
   StartAfter : {EMPTY, KAB, KAD, KADX}]

InitMock ==
  /\ store \in MockTrees
  /\ fsys = NewWithAPI
  /\ wfile = <<>>
  /\ dirh = <<>>
  /\ sub = <<>>
  /\ mock = <<>>
  /\ ret = NoRet

\* Listings on the FSS3API, paged.
NextMock ==
  \/ \E input \in MockInputs : DoMockList(input)
  \/ DoMockNext

SpecMock == InitMock /\ [][NextMock]_vars

\* The operations that page through listings, with a caller that takes the
\* result of every call that returns.
NextLoops ==
  \/ \E name \in Names : DoReadDir(name)
  \/ \E pattern \in Patterns : DoGlob(pattern)
  \/ \E name \in Names : DoRemoveAll(name)
  \/ Return

SpecLoops == Init /\ [][NextLoops]_vars /\ WF_vars(Return)

\* Several write handles at once, with WriteFile and the removals, from
\* buckets in which no key lies under another key.  The caller writes a
\* handle once.
HandleNames == {KF, KAB, <<"a", "/", "b", "/", "e">>}

HandleBodies == {<<1>>, <<2>>}

HandleBuckets ==
  {b \in Buckets : DOMAIN b \in {{}, {KA}, {KAB}, {KAB, KAE}}}

InitHandles ==
  /\ store \in HandleBuckets
  /\ fsys = [DirOpenBufferSize |-> MaxPage, ListBufferSize |-> MaxPage, dir |-> EMPTY]
  /\ wfile = <<>>
  /\ dirh = <<>>
  /\ sub = <<>>
  /\ mock = <<>>
  /\ ret = NoRet

NextHandles ==
  \/ \E name \in HandleNames : DoCreateFileMore(name)
  \/ \E i \in 1..MaxHandles, p \in HandleBodies :
       i <= Len(wfile) /\ ~wfile[i].f.wrote /\ DoWriteOn(i, p)
  \/ \E i \in 1..MaxHandles : DoCloseOn(i)
  \/ \E name \in HandleNames, p \in HandleBodies : DoWriteFile(name, p)
  \/ \E name \in HandleNames : DoRemoveFile(name)
  \/ \E name \in {KA, KAB} : DoRemoveAll(name)
  \/ Return

SpecHandles == InitHandles /\ [][NextHandles]_vars

\* RemoveAll while another client puts an object into the bucket.
RacedBodies == {<<2, 2>>}

NextRace ==
  \/ \E name \in {DOT, KA, KAD}, putAt \in 1..MaxCalls, k \in Universe,
        body \in RacedBodies :
       DoRemoveAllRacing(name, putAt, k, body)
  \/ Return

SpecRace == Init /\ [][NextRace]_vars

\* RemoveAll among other clients that put and delete: at most two events,
\* each before one of the first MaxCalls store calls.
Events ==
  {NoEvent} \cup [kind : {"put", "delete"}, k : {KAB, KAC, KAE}]

EventSeqs ==
  {evs \in [1..MaxCalls -> Events] :
     Cardinality({n \in 1..MaxCalls : evs[n] # NoEvent}) <= 2}

InitAmong ==
  /\ store \in {[k \in K |-> <<1>>] : K \in SUBSET Universe}
  /\ fsys \in [DirOpenBufferSize : {1}, ListBufferSize : 1..MaxPage, dir : {EMPTY}]
  /\ wfile = <<>>
  /\ dirh = <<>>
  /\ sub = <<>>
  /\ mock = <<>>
  /\ ret = NoRet

NextAmong ==
  \/ \E name \in {DOT, KA}, evs \in EventSeqs : DoRemoveAllAmong(name, evs)
  \/ Return

SpecAmong == InitAmong /\ [][NextAmong]_vars

\* The removals on a bucket with siblings whose names begin alike (a, ab,
\* ab/x; a/d/x, a/dx), on the adapter of the bucket and on one rooted at a.
FrameUniverse ==
  {KA, KAB, <<"a", "b">>, <<"a", "b", "/", "x">>, KADX, <<"a", "/", "d", "x">>}

FrameNames == {DOT, KA, <<"a", "b">>, KAB, KAD, <<"d">>, <<"a", "/", ".">>}

InitFrame ==
  /\ store \in {[k \in K |-> <<1>>] : K \in SUBSET FrameUniverse}
  /\ fsys \in [DirOpenBufferSize : {1}, ListBufferSize : 1..MaxPage,
               dir : {EMPTY, KA}]
  /\ wfile = <<>>
  /\ dirh = <<>>
  /\ sub = <<>>
  /\ mock = <<>>
  /\ ret = NoRet

NextFrame ==
  \/ \E name \in FrameNames : DoRemoveAll(name)
  \/ \E name \in FrameNames : DoRemoveFile(name)
  \/ Return

SpecFrame == InitFrame /\ [][NextFrame]_vars

\* Calls on the adapter Sub returned, with paths that climb out of it.
ClimbingNames ==
  {DOT, <<"x">>, <<".", ".">>, <<".", ".", "/", "b">>, <<".", ".", "/", "e">>,
   <<".", ".", "/", ".", ".", "/", "a">>}

NextConfine ==
  \/ \E dir \in {KA, KAD} : DoSub(dir)
  \/ \E op \in PathOps, name \in ClimbingNames :
       \E p \in (IF op = "WriteFile" THEN {<<1>>} ELSE {<<>>}) :
         DoSubView(op, name, p)
  \/ Return

SpecConfine == InitSub /\ [][NextConfine]_vars

\* A write handle that is written, read, stat'ed and closed.
NextBody ==
  \/ \E name \in {KF, KAB} : DoCreateFile(name)
  \/ \E p \in Payloads : DoWrite(p)
  \/ \E n \in 1..MaxLen : DoWriterRead(n)
  \/ DoWriterStat
  \/ DoClose
  \/ Return

SpecBody == InitWrite /\ [][NextBody]_vars

\* The operations that get an object, with the body streams they leave.
NextStreams ==
  \/ \E name \in Names : DoStatStreams(name)
  \/ \E name \in Names : DoReadFileStreams(name)
  \/ \E name \in Names : DoOpenStreams(name)
  \/ \E name \in Names : DoCreateFileStreams(name)
  \/ Return

SpecStreams == Init /\ [][NextStreams]_vars

\* The translation of errors: bare errors of the file system and of the
\* store, and the same inside one and inside two path errors.
Causes == {"ErrNotExist", "ErrExist", "ErrInvalid", "NoSuchKey", "InternalError"}

ErrorOps == {"Open", "Stat"}

Errors ==
  {Bare(c) : c \in Causes} \cup
  {PathError(o, n, Bare(c)) : o \in ErrorOps, n \in {KA, KF}, c \in Causes} \cup
  {PathError(o, KA, PathError("Open", n, Bare(c))) :
     o \in ErrorOps, n \in {KA, KF}, c \in Causes}

InitErrors ==
  /\ store \in {<<>>}
  /\ fsys = NewWithAPI
  /\ wfile = <<>>
  /\ dirh = <<>>
  /\ sub = <<>>
  /\ mock = <<>>
  /\ ret = NoRet

NextErrors ==
  \/ \E e \in Errors, op \in ErrorOps, name \in {KA, KAB} : DoTranslate(e, op, name)
  \/ Return

SpecErrors == InitErrors /\ [][NextErrors]_vars

\* CreateFile, Open and RemoveAll against a store one call of which fails.
NextFault ==
  \/ \E name \in Names, fault \in {"target", "listing", "parent"} :
       DoCreateFileFailing(name, fault)
  \/ \E name \in Names, fault \in {"target", "listing"} :
       DoOpenFailing(name, fault)
  \/ \E name \in Names, failAt \in 1..MaxCalls : DoRemoveAllFailing(name, failAt)
  \/ Return

SpecFault == Init /\ [][NextFault]_vars

(***************************************************************************)
(* What the bucket holds, seen as a tree: the vocabulary of the            *)
(* properties below.                                                       *)
(***************************************************************************)
\* The key prefix of the directory d: "" for the root, d/ otherwise.
PrefixOfDir(d) == IF d = DOT THEN EMPTY ELSE d \o SLASH

\* The keys of st that lie under the directory d.
Under(st, d) ==
  {k \in DOMAIN st : HasPrefix(k, PrefixOfDir(d)) /\ Len(k) > Len(PrefixOfDir(d))}

\* The immediate child of d that the key k under d belongs to: a directory
\* when k lies deeper, the file itself otherwise.
ChildOf(st, d, k) ==
  LET segs == SplitSlash(DropFirst(k, Len(PrefixOfDir(d))))
  IN  [name |-> segs[1], isDir |-> Len(segs) > 1,
       size |-> IF Len(segs) > 1 THEN 0 ELSE Len(st[k])]

Children(st, d) == {ChildOf(st, d, k) : k \in Under(st, d)}

\* d is a synthesized directory: keys lie under it and no object has key d.
Synthesized(st, d) == d \notin DOMAIN st /\ Under(st, d) # {}

\* The literal reading: some key has d/ as a prefix.
HasKeyUnder(st, d) == \E k \in DOMAIN st : HasPrefix(k, d \o SLASH)

Range(seq) == {seq[i] : i \in 1..Len(seq)}

Ascending(names) ==
  \A i, j \in 1..Len(names) : i < j => ~StrLess(names[j], names[i])

CountIn(seq, x) == Cardinality({i \in 1..Len(seq) : seq[i] = x})

SameBag(s, t) == \A x \in Range(s) \cup Range(t) : CountIn(s, x) = CountIn(t, x)

\* e is a path error whose cause is c.
IsPathErrorOf(e, c) == Len(e.wraps) >= 1 /\ e.cause = c

\* The calls of a sequence that change the bucket.
Mutating(calls) ==
  {i \in 1..Len(calls) : calls[i] \in {"PutObject", "DeleteObject", "DeleteObjects"}}

(***************************************************************************)
(* The properties.                                                         *)
(***************************************************************************)

\* C1 (as stated): every WriteFile(p, b) on a valid path that returns no
\* error has completed, and then ReadFile(p) returns exactly b and Stat(p)
\* reports a file of size len(b).
C1_RoundTrip ==
  (ret.op = "WriteFile" /\ ValidPath(ret.name) /\ ret.err = NilErr) =>
    /\ ~ret.panicked
    /\ ReadFile(fsys, store, ret.name).err = NilErr
    /\ ReadFile(fsys, store, ret.name).data = ret.data
    /\ Stat(fsys, store, ret.name).err = NilErr
    /\ ~Stat(fsys, store, ret.name).info.isDir
    /\ Stat(fsys, store, ret.name).info.size = Len(ret.data)

\* C2 (as stated): a Close on a never-written handle issues no upload, the
\* first Close on a written handle issues exactly one upload, and a handle
\* never issues more than one.
C2_OneUpload ==
  /\ wfile # <<>> => wfile[1].f.puts <= 1
  /\ (ret.op = "Close" /\ wfile # <<>> /\ ~wfile[1].f.wrote) => ret.calls = <<>>
  /\ (ret.op = "Close" /\ wfile # <<>> /\ wfile[1].f.wrote /\ ~ret.pre) =>
       (~ret.panicked /\ ret.calls = <<"PutObject">> /\ wfile[1].f.puts = 1)

\* C3 (as stated): once a Close has returned on a write handle, every later
\* Write and every later Close on it fails with AlreadyClosed, written or
\* not.
C3_ClosedHandle ==
  (ret.op \in {"Write", "Close"} /\ ret.pre) =>
    (~ret.panicked /\ IsPathErrorOf(ret.err, "ErrClosed"))

\* C4: no CreateFile(p) and no Write on the handle of p changes the
\* bucket, so ReadFile(p), Stat(p) and ReadDir of the parent of p return
\* what they returned before; the written bytes stay in the handle.
C4_InvisibleUntilClose ==
  [][ret'.op \in {"CreateFile", "Write"} =>
       /\ store' = store
       /\ ReadFile(fsys', store', ret'.name) = ReadFile(fsys, store, ret'.name)
       /\ Stat(fsys', store', ret'.name) = Stat(fsys, store, ret'.name)
       /\ ReadDir(fsys', store', Dir(ret'.name)) =
            ReadDir(fsys, store, Dir(ret'.name))]_vars

\* C4's case: a handle holds written bytes that the bucket does not.
C4_Witness ==
  /\ ret.op = "Write"
  /\ wfile # <<>>
  /\ wfile[1].f.wrote
  /\ wfile[1].f.buf # <<>>
  /\ ReadFile(fsys, store, wfile[1].f.key).data # wfile[1].f.buf

\* C5 (as stated): for a synthesized directory d, Stat(d) reports a
\* directory and ReadDir(d) returns exactly one entry per immediate child
\* of d, directories and files with their sizes, in ascending name order,
\* whatever ListBufferSize is.
C5_DirectorySynthesis ==
  /\ (ret.op = "Stat" /\ ValidPath(ret.name) /\ Synthesized(store, ret.name)) =>
       (ret.err = NilErr /\ ret.info.isDir)
  /\ (ret.op = "ReadDir" /\ ValidPath(ret.name) /\ Synthesized(store, ret.name)) =>
       /\ ret.err = NilErr
       /\ Range(ret.entries) = Children(store, ret.name)
       /\ Len(ret.entries) = Cardinality(Children(store, ret.name))
       /\ Ascending(NamesOf(ret.entries))

\* C6 (as stated): a directory handle read with ReadDir(k) until io.EOF,
\* for k below the number of children, has returned the same names, each as
\* often, as ReadDir(-1) on a fresh handle of the same directory.
C6_Pagination ==
  (/\ dirh # <<>>
   /\ dirh[1].done
   /\ dirh[1].k >= 1
   /\ dirh[1].k < Cardinality(Children(store, dirh[1].name))) =>
    SameBag(dirh[1].got,
            NamesOf(DirReadDir(fsys, store,
                               Open(fsys, store, dirh[1].name).dir, -1).entries))

\* C7 (as stated): for a valid path p such that no object has key p and no
\* key has p/ as a prefix, Open(p), Stat(p) and ReadFile(p) fail with a
\* path error whose cause is fs.ErrNotExist.
C7_NotFound ==
  (/\ ret.op \in {"Open", "Stat", "ReadFile"}
   /\ ValidPath(ret.name)
   /\ ret.name \notin DOMAIN store
   /\ ~HasKeyUnder(store, ret.name)) =>
    IsPathErrorOf(ret.err, "ErrNotExist")

\* C7 (amended): the same for every valid path other than the root; for
\* the root ".", whose keys are all the keys of the bucket, when the bucket
\* is empty.
C7_NotFoundAmended ==
  (/\ ret.op \in {"Open", "Stat", "ReadFile"}
   /\ ValidPath(ret.name)
   /\ ret.name \notin DOMAIN store
   /\ Under(store, ret.name) = {}) =>
    IsPathErrorOf(ret.err, "ErrNotExist")

\* C7's case: Open or Stat of an absent path below the root has failed
\* after probing both the object and the prefix.
C7_Witness ==
  /\ ret.op \in {"Open", "Stat"}
  /\ ret.name = KAD
  /\ DOMAIN store # {}
  /\ Under(store, ret.name) = {}
  /\ ret.calls = <<"GetObject", "ListObjectsV2">>
  /\ IsPathErrorOf(ret.err, "ErrNotExist")

\* C8: RemoveFile(p) returns no error whether or not the object exists, so
\* a second call in a row does not fail either, and after it no object has
\* key p.
C8_IdempotentRemove ==
  ret.op = "RemoveFile" =>
    /\ ret.err = NilErr
    /\ ret.name \notin DOMAIN store
    /\ key(fsys, ret.name) \notin DOMAIN store

\* C8's case: a RemoveFile of a path that had no object (as the second of
\* two calls in a row has) returned.
C8_Witness ==
  /\ ret.op = "RemoveFile"
  /\ ~ret.pre
  /\ ret.name = KAB
  /\ ret.err = NilErr

\* C9 (as stated): CreateFile(p) fails with EISDIR whenever p is a
\* synthesized directory and with ENOTDIR whenever the parent of p is an
\* existing file; either way it returns no handle and issues no call that
\* changes the bucket.
C9_TypeConflict ==
  (ret.op = "CreateFile" /\ ValidPath(ret.name)) =>
    /\ Synthesized(store, ret.name) =>
         (IsPathErrorOf(ret.err, "EISDIR") /\ ~ret.handle /\ Mutating(ret.calls) = {})
    /\ Dir(ret.name) \in DOMAIN store =>
         (IsPathErrorOf(ret.err, "ENOTDIR") /\ ~ret.handle /\ Mutating(ret.calls) = {})

\* C9 (amended): EISDIR whenever p is a synthesized directory; ENOTDIR
\* whenever the parent of p is an existing file and p is not a synthesized
\* directory; either way no handle and no call that changes the bucket.
C9_TypeConflictAmended ==
  (ret.op = "CreateFile" /\ ValidPath(ret.name)) =>
    /\ Synthesized(store, ret.name) =>
         (IsPathErrorOf(ret.err, "EISDIR") /\ ~ret.handle /\ Mutating(ret.calls) = {})
    /\ (Dir(ret.name) \in DOMAIN store /\ ~Synthesized(store, ret.name)) =>
         (IsPathErrorOf(ret.err, "ENOTDIR") /\ ~ret.handle /\ Mutating(ret.calls) = {})

\* C9's case: CreateFile under a parent that is a file has failed with
\* ENOTDIR.
C9_Witness ==
  /\ ret.op = "CreateFile"
  /\ ret.name = KAD
  /\ Dir(ret.name) \in DOMAIN store
  /\ ~Synthesized(store, ret.name)
  /\ IsPathErrorOf(ret.err, "ENOTDIR")
  /\ ~ret.handle

TreePaths(st) ==
  DOMAIN st \cup
  UNION {{SubSeq(k, 1, i - 1) : i \in Slashes(k)} : k \in DOMAIN st}

\* C11 (as stated): Glob of a pattern of several segments returns, without
\* error, every path of the synthesized tree that matches the pattern,
\* whatever ListBufferSize is.
C11_GlobComplete ==
  (ret.op = "Glob" /\ Slashes(ret.name) # {}) =>
    /\ ~ret.diverged
    /\ ret.err = NilErr
    /\ \A path \in TreePaths(store) :
         Match(ret.name, path) => path \in Range(ret.entries)

\* C12: the list Glob returns is in strictly ascending order: sorted, and
\* no path twice.
C12_GlobSorted ==
  (ret.op = "Glob" /\ ~ret.diverged) =>
    \A i, j \in 1..Len(ret.entries) :
      i < j => StrLess(ret.entries[i], ret.entries[j])

\* C12's case: Glob has returned files and a directory of one level that
\* were listed over more than one page.
C12_Witness ==
  /\ ret.op = "Glob"
  /\ ret.name = <<"a", "/", "*">>
  /\ fsys.ListBufferSize = 2
  /\ Len(ret.entries) = 4

\* C13 (as stated): after a RemoveAll(dir) that succeeded on a directory
\* that held objects, with no key left under dir, ReadDir(dir) fails with
\* a path error whose cause is fs.ErrNotExist.
C13_ReadDirAfterRemoveAll ==
  (/\ ret.op = "RemoveAll"
   /\ ValidPath(ret.name)
   /\ ret.pre
   /\ ret.err = NilErr
   /\ Under(store, ret.name) = {}) =>
    IsPathErrorOf(ReadDir(fsys, store, ret.name).err, "ErrNotExist")

\* C14 (as stated): after a RemoveAll(p) that succeeded, no object has the
\* key of p and no object has a key under p/, whatever ListBufferSize is.
C14_RemoveAllRemoves ==
  (ret.op = "RemoveAll" /\ ValidPath(ret.name) /\ ret.err = NilErr) =>
    /\ ret.name = DOT \/ key(fsys, ret.name) \notin DOMAIN store
    /\ Under(store, ret.name) = {}

\* C15 (as stated): an operation that takes a path, called with an invalid
\* one, fails with a path error whose cause is fs.ErrInvalid and issues no
\* store call.
C15_InvalidPath ==
  (/\ ret.op \in {"Open", "Stat", "ReadDir", "ReadFile", "Sub", "CreateFile",
                  "WriteFile", "RemoveFile", "RemoveAll"}
   /\ ~ValidPath(ret.name)) =>
    (IsPathErrorOf(ret.err, "ErrInvalid") /\ ret.calls = <<>>)

\* The paths a Glob on the parent returned, relative to the directory dir
\* of the view.
RECURSIVE RelativeTo(_, _)
RelativeTo(dir, keys) ==
  IF keys = <<>> THEN <<>>
  ELSE <<(IF HasPrefix(Head(keys), PrefixOfDir(dir))
            THEN DropFirst(Head(keys), Len(PrefixOfDir(dir)))
          ELSE Head(keys))>> \o RelativeTo(dir, Tail(keys))

\* The same result and effect: the same kind of error, the same values
\* returned, the same bucket left.
SameOutcome(dir, a, b) ==
  /\ a.st = b.st
  /\ a.ret.err.cause = b.ret.err.cause
  /\ a.ret.panicked = b.ret.panicked
  /\ a.ret.diverged = b.ret.diverged
  /\ a.ret.info = b.ret.info
  /\ a.ret.data = b.ret.data
  /\ a.ret.n = b.ret.n
  /\ a.ret.entries = IF a.ret.op = "Glob" THEN RelativeTo(dir, b.ret.entries)
                      ELSE b.ret.entries

\* C16 (as stated): an operation Open, Stat, ReadDir, ReadFile, Glob,
\* WriteFile, RemoveFile or RemoveAll made with a valid path p on the view
\* Sub(d) returned has the same result and the same effect on the bucket as
\* the operation made on the parent with the path join(d, p), the paths Glob
\* returns being relative to d.
C16_SubEquivalent ==
  [][(Idle /\ ret'.recv = "sub" /\ ValidPath(ret'.name)) =>
       SameOutcome(sub[1].dir,
                   [ret |-> ret', st |-> store'],
                   ViewCall(fsys, store, ret'.op,
                            Join(sub[1].dir, ret'.name), ret'.data))]_vars

\* C17: Sub(d) and MkdirAll(d) issue no store call and leave the bucket and
\* the adapter they are called on as they were; MkdirAll returns no error,
\* and when d is a valid path with no object at d and no key under d, Stat(d)
\* after MkdirAll(d) fails with NotFound.
C17_NoDirectoryMade ==
  [][(Idle /\ ret'.op \in {"Sub", "MkdirAll"}) =>
       /\ ret'.calls = <<>>
       /\ store' = store
       /\ fsys' = fsys
       /\ ret'.op = "MkdirAll" =>
            /\ ret'.err = NilErr
            /\ (/\ ValidPath(ret'.name)
                /\ key(fsys, ret'.name) \notin DOMAIN store
                /\ Under(store, ret'.name) = {}) =>
                 IsPathErrorOf(Stat(fsys', store', ret'.name).err, "ErrNotExist")]_vars

\* MkdirAll("a/d") returned on a bucket that holds keys, none of them at or
\* under a/d, after a Sub returned a view.
C17_Witness ==
  /\ ret.op = "MkdirAll"
  /\ ret.name = KAD
  /\ KAB \in DOMAIN store
  /\ Under(store, KAD) = {}
  /\ sub # <<>>

\* The prefix names the root or a directory: it is empty or ends with "/".
IsDirPrefix(prefix) == prefix = EMPTY \/ HasSuffix(prefix, SLASH)

StrictlyAscending(keys) ==
  \A i, j \in 1..Len(keys) : i < j => StrLess(keys[i], keys[j])

\* C18 (as stated): on the FSS3API, listing a directory prefix without a
\* delimiter page by page, each call starting after the last key of the
\* page before: every page holds only keys of files, each greater than the
\* startAfter of its call; the keys are strictly ascending within and
\* across pages; and when the last page is not truncated, the keys returned
\* are exactly the keys that begin with the prefix (and are greater than
\* the startAfter of the first call).
C18_MockWalk ==
  (/\ mock # <<>>
   /\ mock[1].input.Delimiter = EMPTY
   /\ IsDirPrefix(mock[1].input.Prefix)
   /\ mock[1].output.err = NilErr) =>
    /\ \A k \in Range(KeySeq(mock[1].output.Contents)) :
         k \in DOMAIN store /\ StrLess(mock[1].input.StartAfter, k)
    /\ StrictlyAscending(mock[1].got)
    /\ ~mock[1].output.IsTruncated =>
         Range(mock[1].got) =
           {k \in DOMAIN store : /\ HasPrefix(k, mock[1].input.Prefix)
                                 /\ StrLess(mock[1].start, k)}

\* C19 (as stated): on the FSS3API, a list call with the delimiter "/"
\* returns what the contract of the store returns for the same prefix,
\* startAfter and maxKeys on the same keys: the same objects, the same
\* common prefixes, the same truncated.
C19_MockReadDir ==
  (mock # <<>> /\ mock[1].input.Delimiter = SLASH) =>
    mock[1].output =
      [err |-> NilErr] @@
        ListObjectsV2(store, mock[1].input.Prefix, TRUE, mock[1].input.MaxKeys,
                      mock[1].input.StartAfter)

\* C20 (as stated): ReadDir(n) with n > 0 on a directory handle returns at
\* most n entries, in ascending order of their names, and when it returns
\* io.EOF it returns no entry.
C20_ReadDirN ==
  (ret.op = "DirReadDir" /\ ret.n > 0) =>
    /\ Len(ret.entries) <= ret.n
    /\ Ascending(NamesOf(ret.entries))
    /\ ret.err = Bare("EOF") => ret.entries = <<>>

\* The keys and common prefixes of a list page.
PageStrings(output) ==
  Range(output.CommonPrefixes) \cup Range(KeySeq(output.Contents))

\* The page a ReadDir(n) on the handle d reads: s3Dir.list asks for what n
\* leaves once the cache is taken, after the last-seen key.
PageOfHandle(st, d, n) ==
  ListObjectsV2(st, d.prefix, TRUE, n - Len(d.cache), d.after)

\* C21 (as stated): when a ReadDir(n) on a directory handle has read a list
\* page, the last-seen key of the handle is the greatest key or common
\* prefix of that page and is not below what it was; and the page read next,
\* whatever its size, holds no key or common prefix of this page.
C21_LastSeenKey ==
  [][(Idle /\ ret'.op = "DirReadDir" /\ ret'.calls # <<>>
      /\ PageStrings(PageOfHandle(store, dirh[1].d, ret'.n)) # {}) =>
       /\ \A k \in PageStrings(PageOfHandle(store, dirh[1].d, ret'.n)) :
            k = dirh'[1].d.after \/ StrLess(k, dirh'[1].d.after)
       /\ dirh'[1].d.after \in PageStrings(PageOfHandle(store, dirh[1].d, ret'.n))
       /\ ~StrLess(dirh'[1].d.after, dirh[1].d.after)
       /\ \A m \in 1..MaxPage :
            PageStrings(ListObjectsV2(store, dirh[1].d.prefix, TRUE, m,
                                      dirh'[1].d.after))
              \cap PageStrings(PageOfHandle(store, dirh[1].d, ret'.n)) = {}]_vars

\* C22 (as stated): every ReadDir, Glob and RemoveAll that is called
\* returns, on every bucket and for every ListBufferSize.
C22_Termination ==
  (ret.op \in {"ReadDir", "Glob", "RemoveAll"}) ~> (ret.op = "none")

\* C23 (as stated): when a store call issued by CreateFile or Open fails
\* with an error other than key-not-found, the operation returns an error
\* and the failed call is the last store call it issues.
C23_NoSwallowedFailure ==
  (ret.op \in {"CreateFile", "Open"} /\ ret.pre) =>
    (ret.err # NilErr /\ Len(ret.calls) = ret.n)

\* The keys RemoveAll(dir) lists, and the n least of them.
KeysListed(st, fs, dir) ==
  {k \in DOMAIN st : HasPrefix(k, normalizePrefix(key(fs, dir)))}

LeastKeys(K, n) == {k \in K : Cardinality({o \in K : StrLess(o, k)}) < n}

\* C24: when the list call or the DeleteObjects call of a page of RemoveAll
\* fails, RemoveAll returns that error in a path error, the failed call is
\* the last it issues, and the bucket has lost exactly the keys of the pages
\* before: the first ListBufferSize keys for every page before the failed
\* one, and no other key.
C24_RemoveAllAborts ==
  [][(Idle /\ ret'.op = "RemoveAll" /\ ret'.pre) =>
       /\ IsPathErrorOf(ret'.err, "InternalError")
       /\ Len(ret'.calls) = ret'.n
       /\ store' =
            DeleteObjects(store,
                          LeastKeys(KeysListed(store, fsys, ret'.name),
                                    ((ret'.n - 1) \div 2) * fsys.ListBufferSize))]_vars

\* The list call of the second page of RemoveAll("a") failed after the
\* first page was deleted, and keys of later pages are left.
C24_Witness ==
  /\ ret.op = "RemoveAll"
  /\ ret.pre
  /\ ret.n = 3
  /\ ret.name = KA
  /\ KAB \notin DOMAIN store
  /\ KAE \in DOMAIN store

\* C25: every error an operation of the adapter, of a directory handle or
\* of a write handle returns is one path error around a cause: never a bare
\* error, never a path error inside a path error.
C25_WrappedOnce == (ret.err # NilErr) => (Len(ret.err.wraps) = 1)

\* C26: Open and Stat on a path other than the root whose last segment is
\* "." return a not-found error, on every bucket.
C26_DotSegmentNotFound ==
  (ret.op \in {"Open", "Stat"} /\ ret.name # DOT /\ HasSuffix(ret.name, <<"/", ".">>))
    => IsPathErrorOf(ret.err, "ErrNotExist")

\* The path names an object of the bucket, or a directory that holds one.
Listable(st, fs, p) ==
  \/ key(fs, p) \in DOMAIN st
  \/ \E k \in DOMAIN st : HasPrefix(k, WithSlash(key(fs, p)))

\* C27: every path Glob(pattern) returns matches the whole pattern, lies as
\* many levels deep as the pattern has segments, and names an object of the
\* bucket or a directory that holds one.
C27_GlobSound ==
  (ret.op = "Glob" /\ ~ret.diverged) =>
    \A i \in 1..Len(ret.entries) :
      /\ Match(ret.name, ret.entries[i])
      /\ Cardinality(Slashes(ret.entries[i])) = Cardinality(Slashes(ret.name))
      /\ Listable(store, fsys, ret.entries[i])

\* C27's case: Glob of a pattern of two segments has returned a file and a
\* directory of the second level while the bucket holds a file at the root.
C27_Witness ==
  /\ ret.op = "Glob"
  /\ ret.name = <<"*", "/", "*">>
  /\ fsys.dir = EMPTY
  /\ KA \in DOMAIN store
  /\ KAB \in Range(ret.entries)
  /\ KAD \in Range(ret.entries)

\* C28: RemoveAll(dir) is not atomic.  Another client puts a new key under
\* dir during the call, either between the last list call and the delete
\* that follows it, or after the list call of a page that reached past the
\* key.  RemoveAll then returns no error and the key is in the bucket with
\* the body put.
C28_PutSurvives ==
  [][(/\ Idle
      /\ ret'.op = "RemoveAll"
      /\ ret'.pre
      /\ ret'.entries[1] \notin DOMAIN store
      /\ HasPrefix(ret'.entries[1], normalizePrefix(key(fsys, ret'.name)))
      /\ \/ ret'.n = Len(ret'.calls)
         \/ \E e \in LeastKeys(KeysListed(store, fsys, ret'.name),
                                (ret'.n \div 2) * fsys.ListBufferSize) :
              StrLess(ret'.entries[1], e)) =>
       /\ ret'.err = NilErr
       /\ ret'.entries[1] \in DOMAIN store'
       /\ store'[ret'.entries[1]] = ret'.data]_vars

\* C28's case: RemoveAll("a") listed two pages and returned no error, the
\* other client put a/c after the first list call, and a/c is the one key
\* left under a.
C28_Witness ==
  /\ ret.op = "RemoveAll"
  /\ ret.name = KA
  /\ ret.err = NilErr
  /\ ret.pre
  /\ ret.n >= 2
  /\ Len(ret.calls) = 4
  /\ ret.entries = <<KAC>>
  /\ Under(store, KA) = {KAC}
  /\ store[KAC] = ret.data

\* C29 (as stated): of two written write handles for one path, each Close
\* returns without error having uploaded, so that the object at the path
\* holds, after every such Close, the bytes of the handle closed last and
\* nothing else.
C29_LastWriteWins ==
  [][(/\ Idle
      /\ ret'.op = "Close"
      /\ wfile[ret'.n].f.wrote
      /\ ~wfile[ret'.n].closed
      /\ \E j \in 1..Len(wfile) :
           /\ j # ret'.n
           /\ wfile[j].f.key = wfile[ret'.n].f.key
           /\ wfile[j].f.wrote) =>
       /\ ~ret'.panicked
       /\ ret'.err = NilErr
       /\ key(fsys, wfile[ret'.n].f.key) \in DOMAIN store'
       /\ store'[key(fsys, wfile[ret'.n].f.key)] = wfile[ret'.n].f.buf]_vars

\* No key of the bucket lies under another key: no path is a file and an
\* ancestor directory of a file.
TreeConsistent(st) ==
  \A k1, k2 \in DOMAIN st : ~HasPrefix(k2, k1 \o SLASH)

C31_HandleAgreesWithReadDir ==
  /\ (ret.op = "Open" /\ ret.handle /\ dirh # <<>> /\ dirh[1].name = ret.name
        /\ dirh[1].k = 0 /\ dirh[1].got = <<>>) =>
       SameBag(NamesOf(DirReadDir(fsys, store, dirh[1].d, -1).entries),
               NamesOf(ReadDir(fsys, store, ret.name).entries))
  /\ (dirh # <<>> /\ dirh[1].done) =>
       SameBag(dirh[1].got, NamesOf(ReadDir(fsys, store, dirh[1].name).entries))

\* The places, among RemoveAll's calls, at which another client touched k.
Touched(evs, k, n) == {i \in 1..n : i <= Len(evs) /\ evs[i].kind # "none" /\ evs[i].k = k}

\* C32: while other clients put and delete keys, a key under dir that is in
\* the bucket when RemoveAll(dir) starts and that no other client deletes
\* or creates anew during the call (a put on it comes, if at all, before
\* the first list call) is not in the bucket when RemoveAll returns.
C32_StableKeysDeleted ==
  [][(Idle /\ ret'.op = "RemoveAll") =>
       /\ ret'.err = NilErr
       /\ \A k \in KeysListed(store, fsys, ret'.name) :
            (/\ Touched(ret'.entries, k, Len(ret'.calls)) \subseteq {1}
             /\ 1 \in Touched(ret'.entries, k, Len(ret'.calls)) =>
                  ret'.entries[1].kind = "put") =>
              k \notin DOMAIN store']_vars

\* C32's case: RemoveAll("a") went over two pages and returned while
\* another client put a key and deleted a key during the call.
C32_Witness ==
  /\ ret.op = "RemoveAll"
  /\ ret.name = KA
  /\ ret.err = NilErr
  /\ Len(ret.calls) >= 4
  /\ \E i, j \in 2..MaxCalls :
       /\ ret.entries[i].kind = "put"
       /\ ret.entries[j].kind = "delete"
  /\ fsys.ListBufferSize = 2

C34_Confined ==
  [][(Idle /\ ret'.op # "none" /\ ret'.recv = "sub" /\ sub # <<>>) =>
       /\ \A k \in DOMAIN store \cup DOMAIN store' :
            (\/ k \notin DOMAIN store
             \/ k \notin DOMAIN store'
             \/ store[k] # store'[k]) =>
              (k = sub[1].dir \/ HasPrefix(k, normalizePrefix(sub[1].dir)))
       /\ (ret'.op = "ReadFile" /\ ret'.err = NilErr) =>
            HasPrefix(key(sub[1], ret'.name), normalizePrefix(sub[1].dir))]_vars

\* C35 (as stated): the body Close uploads is the bytes of the Writes on
\* the handle, in call order.  A Write adds its bytes to the end of what
\* the handle holds for the upload, a Read or a Stat on the handle leaves
\* that as it is, and the first Close of a written handle returns having
\* put it at the handle's key.
C35_BodyIsWrites ==
  [][(Idle /\ wfile # <<>> /\ wfile' # <<>>) =>
       /\ (ret'.op = "Write" /\ ret'.err = NilErr) =>
            wfile'[1].f.buf = wfile[1].f.buf \o ret'.data
       /\ ret'.op \in {"WriterRead", "WriterStat"} =>
            wfile'[1].f.buf = wfile[1].f.buf
       /\ (ret'.op = "Close" /\ wfile[1].f.wrote /\ ~wfile[1].f.bufNil) =>
            /\ ~ret'.panicked
            /\ ret'.err = NilErr
            /\ key(fsys, wfile[1].f.key) \in DOMAIN store'
            /\ store'[key(fsys, wfile[1].f.key)] = wfile[1].f.buf]_vars

\* C36 (as stated): Stat, ReadFile, Open and CreateFile leave no body
\* stream of a get call open unless a handle the caller can close holds it.
C36_NoStreamLeft ==
  (ret.op \in {"Stat", "ReadFile", "Open", "CreateFile"}) => ret.n = 0

\* C37: on the adapter Sub returned (the adapter of the whole bucket when
\* its root is "."), Open(".") and Stat(".") return a directory when a key
\* lies under the adapter's root and fail with a not-found path error when
\* none does; ReadDir(".") then returns no entry and no error.
C37_RootExistsIffKeys ==
  (ret.recv = "sub" /\ sub # <<>> /\ ret.name = DOT) =>
    /\ (ret.op \in {"Open", "Stat"} /\ Under(store, sub[1].dir) # {}) =>
         (ret.err = NilErr /\ ret.info.isDir)
    /\ (ret.op \in {"Open", "Stat"} /\ Under(store, sub[1].dir) = {}) =>
         IsPathErrorOf(ret.err, "ErrNotExist")
    /\ (ret.op = "ReadDir" /\ Under(store, sub[1].dir) = {}) =>
         (ret.err = NilErr /\ ret.entries = <<>>)

\* C37's case: Stat(".") on the adapter rooted at a/d failed with not-found
\* in a bucket that holds keys, none of them under a/d.
C37_Witness ==
  /\ ret.recv = "sub"
  /\ sub # <<>>
  /\ sub[1].dir = KAD
  /\ ret.op = "Stat"
  /\ ret.name = DOT
  /\ store # <<>>
  /\ Under(store, KAD) = {}
  /\ IsPathErrorOf(ret.err, "ErrNotExist")

\* A not-found error: fs.ErrNotExist, bare or inside one path error.
IsNotFound(e) == e.cause = "ErrNotExist" /\ Len(e.wraps) <= 1

\* The not-found path error of the operation and path of the call.
NotFoundOf(op, name) == PathError(op, name, Bare("ErrNotExist"))

\* What C38 says of every translation but the round trip: a not-found
\* error goes to the store's NoSuchKey and every other error stays as it
\* is; NoSuchKey goes to the not-found path error and every other error is
\* put, as it is, inside a path error of the operation and path.
TranslatesEachWay ==
  /\ IsNotFound(ret.entries[1]) => ret.entries[2] = Bare("NoSuchKey")
  /\ ~IsNotFound(ret.entries[1]) => ret.entries[2] = ret.entries[1]
  /\ ret.entries[2].cause = "NoSuchKey" => ret.err = NotFoundOf(ret.op, ret.name)
  /\ ret.entries[2].cause # "NoSuchKey" =>
       ret.err = PathError(ret.op, ret.name, ret.entries[2])

\* C38 (as stated): the round trip of an error e is the not-found path
\* error exactly when e is a not-found error, and each translation is as
\* described.
C38_RoundTrip ==
  (ret.op \in ErrorOps /\ ret.pre) =>
    /\ (ret.err = NotFoundOf(ret.op, ret.name)) <=> IsNotFound(ret.entries[1])
    /\ TranslatesEachWay

\* C38 (amended): the round trip of e is the not-found path error exactly
\* when e is a not-found error or holds the store's NoSuchKey, bare or
\* inside path errors; each translation is as described.
C38_RoundTripAmended ==
  (ret.op \in ErrorOps /\ ret.pre) =>
    /\ (ret.err = NotFoundOf(ret.op, ret.name)) <=>
         (IsNotFound(ret.entries[1]) \/ ret.entries[1].cause = "NoSuchKey")
    /\ TranslatesEachWay

\* C38's case: a not-found error inside a path error of another operation
\* and path went to NoSuchKey and came back as the not-found path error of
\* this operation and path.
C38_Witness ==
  /\ ret.op = "Stat"
  /\ ret.pre
  /\ ret.name = KAB
  /\ ret.entries[1] = PathError("Open", KF, Bare("ErrNotExist"))
  /\ ret.entries[2] = Bare("NoSuchKey")
  /\ ret.err = NotFoundOf("Stat", KAB)
====
